---------------------------- MODULE Spec2Model ----------------------------
(***************************************************************************)
(* The two-pass Tinker assembler of src/main.c (the validating variant,    *)
(* lines 468-1344): Pass 1 validates each code line, sizes it and records  *)
(* label addresses; Pass 2 expands macros and substitutes label addresses. *)
(*                                                                         *)
(* Text is modelled as text: a source line is a string, a character is a   *)
(* string of length one, and the C library calls the program makes         *)
(* (isspace, sscanf, atoi, strtol, strtoul, strtoull, the POSIX regexes,   *)
(* printf's %d and %llu) are operators on strings.  A 64-bit quantity is   *)
(* four 16-bit limbs, least significant first, so that 64-bit wrap-around  *)
(* and range errors are computed rather than assumed.                      *)
(***************************************************************************)
EXTENDS Integers, Sequences, FiniteSets, TLC

(***************************************************************************)
(* Characters and C strings                                                *)
(***************************************************************************)

Min(a, b) == IF a < b THEN a ELSE b

\* F applied to v, with v worked out once: the body of a C function after an
\* assignment to a local
With(v, F(_)) == F(v)

\* the characters i..j of s that exist (positions count from 1)
Sub(s, i, j) ==
    IF i < 1 \/ i > Len(s) \/ j < i THEN "" ELSE SubSeq(s, i, Min(j, Len(s)))

\* s[i-1] in C; "" stands for the terminating NUL
Ch(s, i) == Sub(s, i, i)

\* the C pointer s + (i-1), as a string
From(s, i) == Sub(s, i, Len(s))

SpaceChars == {" ", "\t"}

isspace(c) == c \in SpaceChars

DecDigits == {"0", "1", "2", "3", "4", "5", "6", "7", "8", "9"}

HexDigits == DecDigits \cup {"a", "b", "c", "d", "e", "f", "A", "B", "C", "D", "E", "F"}

DigitValue(c) ==
    CASE c = "0" -> 0 [] c = "1" -> 1 [] c = "2" -> 2 [] c = "3" -> 3
      [] c = "4" -> 4 [] c = "5" -> 5 [] c = "6" -> 6 [] c = "7" -> 7
      [] c = "8" -> 8 [] c = "9" -> 9
      [] c \in {"a", "A"} -> 10 [] c \in {"b", "B"} -> 11
      [] c \in {"c", "C"} -> 12 [] c \in {"d", "D"} -> 13
      [] c \in {"e", "E"} -> 14 [] c \in {"f", "F"} -> 15

\* the least index of a non-empty set of indices
First(indices) == CHOOSE j \in indices : \A k \in indices : j <= k

\* first index j >= i whose character is not in set (Len(s)+1 at the end)
SkipWhile(s, i, set) ==
    With({j \in i..Len(s) : Ch(s, j) \notin set}, LAMBDA stops :
        IF stops # {} THEN First(stops)
        ELSE IF i > Len(s) THEN i ELSE Len(s) + 1)

\* first index j >= i whose character is in set (Len(s)+1 at the end)
SkipUntil(s, i, set) ==
    With({j \in i..Len(s) : Ch(s, j) \in set}, LAMBDA stops :
        IF stops # {} THEN First(stops)
        ELSE IF i > Len(s) THEN i ELSE Len(s) + 1)

RECURSIVE RTrim(_)
RTrim(s) ==
    IF Len(s) > 0 /\ isspace(Ch(s, Len(s)))
    THEN RTrim(Sub(s, 1, Len(s) - 1))
    ELSE s

trim(s) == RTrim(From(s, SkipWhile(s, 1, SpaceChars)))

\* sscanf's %<width>s from index i: skip white space, then the run of
\* non-space characters, at most width of them.  ok is FALSE at end of input.
ScanWord(s, i, width) ==
    With(SkipWhile(s, i, SpaceChars), LAMBDA b :
    With(Min(SkipUntil(s, b, SpaceChars), b + width), LAMBDA e :
        [ok |-> b <= Len(s), tok |-> Sub(s, b, e - 1), next |-> e]))

\* sscanf's %<width>[^stop] from index i: no white space is skipped, and at
\* least one character must match.
ScanSet(s, i, stop, width) ==
    With(Min(SkipUntil(s, i, stop), i + width), LAMBDA e :
        [ok |-> e > i, tok |-> Sub(s, i, e - 1), next |-> e])

\* atoi: white space, an optional sign, then decimal digits
RECURSIVE AtoiDigits(_, _, _)
AtoiDigits(s, i, acc) ==
    IF Ch(s, i) \in DecDigits
    THEN AtoiDigits(s, i + 1, acc * 10 + DigitValue(Ch(s, i)))
    ELSE acc

atoi(s) ==
    With(SkipWhile(s, 1, SpaceChars), LAMBDA b :
    With(AtoiDigits(s, IF Ch(s, b) \in {"+", "-"} THEN b + 1 ELSE b, 0), LAMBDA v :
        IF Ch(s, b) = "-" THEN 0 - v ELSE v))

(***************************************************************************)
(* 64-bit unsigned values: <<l0, l1, l2, l3>>, value = sum of li * 2^(16i) *)
(***************************************************************************)

Limb == 2 ^ 16

Zero64 == <<0, 0, 0, 0>>

Max64 == <<65535, 65535, 65535, 65535>>

U64(n) == <<n % Limb, n \div Limb, 0, 0>>

\* m * base + d for base <= 4096 and d < 4096, with the carry out of bit 63
MulAdd64(m, base, d) ==
    LET t0 == m[1] * base + d
        t1 == m[2] * base + (t0 \div Limb)
        t2 == m[3] * base + (t1 \div Limb)
        t3 == m[4] * base + (t2 \div Limb)
    IN  [val |-> <<t0 % Limb, t1 % Limb, t2 % Limb, t3 % Limb>>,
         ovf |-> t3 \div Limb > 0]

\* two's complement negation modulo 2^64
Neg64(m) ==
    LET b0 == IF m[1] = 0 THEN 0 ELSE 1
        b1 == IF m[2] + b0 = 0 THEN 0 ELSE 1
        b2 == IF m[3] + b1 = 0 THEN 0 ELSE 1
    IN  <<(Limb - m[1]) % Limb, (2 * Limb - m[2] - b0) % Limb,
          (2 * Limb - m[3] - b1) % Limb, (2 * Limb - m[4] - b2) % Limb>>

\* m > k for a constant 0 <= k < 65536
Gt64(m, k) == m[2] # 0 \/ m[3] # 0 \/ m[4] # 0 \/ m[1] > k

(***************************************************************************)
(* strtol / strtoul / strtoull with base 0                                 *)
(***************************************************************************)

\* the digits of a base
DigitsOf(base) == {c \in HexDigits : DigitValue(c) < base}

\* the value of the n <= 3 digits of s from index i
ChunkValue(s, i, n, base) ==
    IF n = 1 THEN DigitValue(Ch(s, i))
    ELSE IF n = 2 THEN DigitValue(Ch(s, i)) * base + DigitValue(Ch(s, i + 1))
    ELSE DigitValue(Ch(s, i)) * base * base + DigitValue(Ch(s, i + 1)) * base
         + DigitValue(Ch(s, i + 2))

\* the digits of s from index i up to e, accumulated three at a time; once
\* the value has left 64 bits it is of no account
RECURSIVE AccDigits(_, _, _, _, _)
AccDigits(s, i, e, base, acc) ==
    IF i >= e THEN [val |-> acc, ovf |-> FALSE]
    ELSE With(MulAdd64(acc, base ^ Min(3, e - i), ChunkValue(s, i, Min(3, e - i), base)),
              LAMBDA r :
                 IF r.ovf THEN [val |-> Max64, ovf |-> TRUE]
                 ELSE AccDigits(s, i + 3, e, base, r.val))

\* the part the strto* family shares: white space, sign, base prefix, digits.
\* mag is the magnitude modulo 2^64 and ovf says that it did not fit.
StrToMag(s) ==
    With(SkipWhile(s, 1, SpaceChars), LAMBDA b :
    With(IF Ch(s, b) \in {"+", "-"} THEN b + 1 ELSE b, LAMBDA d :
    With(/\ Ch(s, d) = "0"
         /\ Ch(s, d + 1) \in {"x", "X"}
         /\ Ch(s, d + 2) \in HexDigits, LAMBDA hex :
    With(IF hex THEN d + 2 ELSE d, LAMBDA first :
    With(IF hex THEN 16 ELSE IF Ch(s, d) = "0" THEN 8 ELSE 10, LAMBDA base :
    With(SkipWhile(s, first, DigitsOf(base)), LAMBDA e :
    With(AccDigits(s, first, e, base, Zero64), LAMBDA r :
        [neg |-> Ch(s, b) = "-", mag |-> r.val, ovf |-> r.ovf, end |-> e])))))))

\* unsigned long is 64 bits: a leading '-' negates modulo 2^64, and only a
\* magnitude above 2^64-1 is a range error
strtoul(s) ==
    With(StrToMag(s), LAMBDA p :
        IF p.ovf THEN [val |-> Max64, erange |-> TRUE]
        ELSE [val |-> IF p.neg THEN Neg64(p.mag) ELSE p.mag, erange |-> FALSE])

strtoull(s) == strtoul(s)

\* long is 64 bits; the value is kept as sign and magnitude
strtol(s) ==
    With(StrToMag(s), LAMBDA p :
        [neg |-> p.neg /\ p.mag # Zero64,
         mag |-> p.mag,
         erange |-> \/ p.ovf
                    \/ ~p.neg /\ p.mag[4] >= 32768
                    \/ p.neg /\ (\/ p.mag[4] > 32768
                                 \/ /\ p.mag[4] = 32768
                                    /\ <<p.mag[1], p.mag[2], p.mag[3]>> # <<0, 0, 0>>)])

\* parse_signed_12_bit with the upper limit one too high
parse_signed_12_bit_to_2048(str) ==
    With(strtol(str), LAMBDA v :
        ~(\/ v.erange
          \/ v.neg /\ Gt64(v.mag, 2048)
          \/ ~v.neg /\ Gt64(v.mag, 2048)))

parse_signed_12_bit(str) ==
    With(strtol(str), LAMBDA v :
        ~(\/ v.erange
          \/ v.neg /\ Gt64(v.mag, 2048)
          \/ ~v.neg /\ Gt64(v.mag, 2047)))

\* parse_unsigned_12_bit with the limit one too high
parse_unsigned_12_bit_to_4096(str) ==
    With(strtoul(str), LAMBDA v : ~(v.erange \/ Gt64(v.val, 4096)))

parse_unsigned_12_bit(str) ==
    With(strtoul(str), LAMBDA v : ~(v.erange \/ Gt64(v.val, 4095)))

(***************************************************************************)
(* Pass 1: size detection and validation                                   *)
(***************************************************************************)

starts_with_ld(line) ==
    LET b == SkipWhile(line, 1, SpaceChars)
    IN  /\ Sub(line, b, b + 1) = "ld"
        /\ (Ch(line, b + 2) = "" \/ isspace(Ch(line, b + 2)) \/ Ch(line, b + 2) = ",")

starts_with_push(line) ==
    LET b == SkipWhile(line, 1, SpaceChars)
    IN  /\ Sub(line, b, b + 3) = "push"
        /\ (Ch(line, b + 4) = "" \/ isspace(Ch(line, b + 4)))

starts_with_pop(line) ==
    LET b == SkipWhile(line, 1, SpaceChars)
    IN  /\ Sub(line, b, b + 2) = "pop"
        /\ (Ch(line, b + 3) = "" \/ isspace(Ch(line, b + 3)))

RegisterInRange(r) == r >= 0 /\ r <= 31

\* sscanf(line, "%31s %63[^\n]", op, operand), then the register form or the
\* signed 12-bit literal form
validate_brr(line) ==
    With(ScanWord(line, 1, 31), LAMBDA op :
    With(ScanSet(line, SkipWhile(line, op.next, SpaceChars), {}, 63), LAMBDA operand :
        IF ~(op.ok /\ operand.ok) THEN FALSE
        ELSE IF Ch(operand.tok, 1) = "r"
             THEN RegisterInRange(atoi(From(operand.tok, 2)))
             ELSE parse_signed_12_bit(operand.tok)))

\* the trimming validate_mov applies to part1 and part2: leading and
\* trailing white space and commas
RECURSIVE RTrimCommas(_)
RTrimCommas(s) ==
    IF Len(s) > 0 /\ (isspace(Ch(s, Len(s))) \/ Ch(s, Len(s)) = ",")
    THEN RTrimCommas(Sub(s, 1, Len(s) - 1))
    ELSE s

TrimCommas(s) == RTrimCommas(From(s, SkipWhile(s, 1, SpaceChars \cup {","})))

\* the offset text of a memory operand "(rX)(L)": from the first 'r', the
\* next '(' and then up to ')' or 31 characters.  found is FALSE when there
\* is no 'r' or no '(' after it.
MemOperand(part) ==
    With(SkipUntil(part, 1, {"r"}), LAMBDA r :
    With(SkipUntil(part, r, {"("}), LAMBDA p :
    With(Min(SkipUntil(part, p + 1, {")"}), p + 1 + 31), LAMBDA e :
        [hasReg |-> r <= Len(part),
         reg |-> atoi(From(part, r + 1)),
         hasOffset |-> r <= Len(part) /\ p <= Len(part),
         offset |-> Sub(part, p + 1, e - 1)])))

\* The operands of a mov line as validate_mov tokenizes them.  When the line
\* has no comma, part1 is split again by an sscanf that reads part1 and
\* writes part1: what `second` then holds depends on the C library, and when
\* there is no second token part2 is never written.  ub.second is TRUE when
\* the library still sees the second token, and ub.stale is the content of
\* the unwritten buffer.
MovParts(line, ub) ==
    With(ScanWord(line, 1, 31), LAMBDA op :
    With(ScanSet(line, SkipWhile(line, op.next, SpaceChars), {","}, 63), LAMBDA p1 :
    With(ScanSet(line, SkipWhile(line, p1.next + 1, SpaceChars), {}, 63), LAMBDA p2 :
    With(IF ~op.ok THEN 0
         ELSE IF ~p1.ok THEN 1
         ELSE IF Ch(line, p1.next) = "," /\ p2.ok THEN 3 ELSE 2, LAMBDA count :
    With(ScanWord(p1.tok, 1, 63), LAMBDA w1 :
    With(ScanWord(p1.tok, w1.next, 63), LAMBDA w2 :
    With(count = 2 /\ w1.ok /\ w2.ok, LAMBDA split :
        [count |-> IF split THEN 3 ELSE count,
         part1 |-> TrimCommas(IF count = 2 THEN w1.tok ELSE p1.tok),
         part2 |-> TrimCommas(IF count = 3 THEN p2.tok
                              ELSE IF split /\ ub.second THEN w2.tok
                              ELSE IF split THEN ""
                              ELSE ub.stale)])))))))

\* the four shapes, once the operands are tokenized
MovShape(count, part1, part2) ==
    IF count < 2 THEN FALSE
    ELSE IF Ch(part1, 1) = "("
    THEN \* (d) mov (rD)(L), rS
         With(MemOperand(part1), LAMBDA mem :
             /\ Ch(part2, 1) = "r"
             /\ RegisterInRange(atoi(From(part2, 2)))
             /\ mem.hasReg
             /\ RegisterInRange(mem.reg)
             /\ mem.hasOffset
             /\ parse_signed_12_bit(mem.offset))
    ELSE IF Ch(part1, 1) # "r" THEN FALSE
    ELSE IF ~RegisterInRange(atoi(From(part1, 2))) THEN FALSE
    ELSE IF count < 3 THEN FALSE
    ELSE IF Ch(part2, 1) = "r"
    THEN \* (a) mov rD, rS
         RegisterInRange(atoi(From(part2, 2)))
    ELSE IF Ch(part2, 1) = "("
    THEN \* (c) mov rD, (rS)(L)
         With(MemOperand(part2), LAMBDA mem :
             /\ mem.hasReg
             /\ RegisterInRange(mem.reg)
             /\ mem.hasOffset
             /\ parse_signed_12_bit(mem.offset))
    ELSE \* (b) mov rD, L
         parse_unsigned_12_bit(part2)

validate_mov(line, ub) ==
    With(MovParts(line, ub), LAMBDA m : MovShape(m.count, m.part1, m.part2))

ImmediateOps == {"addi", "subi", "shftri", "shftli"}

\* sscanf(line, "%31s %31s %63[^\n]", op, rdPart, immPart)
validate_instruction_immediate(line) ==
    With(ScanWord(line, 1, 31), LAMBDA op :
    With(ScanWord(line, op.next, 31), LAMBDA rd :
    With(ScanSet(line, SkipWhile(line, rd.next, SpaceChars), {}, 63), LAMBDA imm :
    With(IF ~op.ok THEN 0 ELSE IF ~rd.ok THEN 1 ELSE IF ~imm.ok THEN 2 ELSE 3, LAMBDA count :
        IF count < 2 THEN TRUE
        ELSE IF op.tok \in ImmediateOps
        THEN /\ count >= 3
             /\ Ch(rd.tok, 1) = "r"
             /\ RegisterInRange(atoi(From(rd.tok, 2)))
             /\ parse_unsigned_12_bit(
                    From(imm.tok, SkipWhile(imm.tok, 1, SpaceChars \cup {","})))
        ELSE TRUE))))

\* the mnemonic catalog of is_valid_instruction_pass1
ops ==
    {"add", "addi", "sub", "subi", "mul", "div",
     "and", "or", "xor", "not", "shftr", "shftri", "shftl", "shftli",
     "br", "brr", "brnz", "call", "return", "brgt",
     "addf", "subf", "mulf", "divf",
     "mov",
     "halt",
     "in", "out", "clr", "ld", "push", "pop"}

\* is_valid_instruction_pass1 without the look-up in the catalog
is_valid_instruction_any_op(line, ub) ==
    With(ScanWord(line, 1, 31), LAMBDA op :
        IF ~op.ok THEN FALSE
        ELSE IF op.tok = "brr" THEN validate_brr(line)
        ELSE IF op.tok = "mov" THEN validate_mov(line, ub)
        ELSE validate_instruction_immediate(line))

is_valid_instruction_pass1(line, ub) ==
    With(ScanWord(line, 1, 31), LAMBDA op :
        IF ~op.ok THEN FALSE
        ELSE IF op.tok \notin ops THEN FALSE
        ELSE IF op.tok = "brr" THEN validate_brr(line)
        ELSE IF op.tok = "mov" THEN validate_mov(line, ub)
        ELSE validate_instruction_immediate(line))

\* the bytes pass1 adds to programCounter for an accepted code line
\* CodeSize without the ld case: a load is sized as an ordinary instruction
CodeSizeNoLd(line) ==
    IF starts_with_push(line) THEN 8
    ELSE IF starts_with_pop(line) THEN 8
    ELSE 4

\* CodeSize with a push sized as an ordinary instruction
CodeSizePush4(line) ==
    IF starts_with_ld(line) THEN 48
    ELSE IF starts_with_pop(line) THEN 8
    ELSE 4

\* CodeSize counting the instructions of the expansion, not their bytes
CodeSizeInstructions(line) ==
    IF starts_with_ld(line) THEN 12
    ELSE IF starts_with_push(line) THEN 2
    ELSE IF starts_with_pop(line) THEN 2
    ELSE 1

CodeSize(line) ==
    IF starts_with_ld(line) THEN 48
    ELSE IF starts_with_push(line) THEN 8
    ELSE IF starts_with_pop(line) THEN 8
    ELSE 4

\* a data item taken for an instruction word
DataSizeWord == 2 + 2

\* the bytes pass1 adds for a line of the data section
DataSize == 8

(***************************************************************************)
(* The label table.  add_label appends an entry without looking for an     *)
(* older one of the same name; uthash puts a new entry at the head of its  *)
(* bucket, so find_label meets the newest entry of a name first.           *)
(***************************************************************************)

add_label(table, label, address) ==
    Append(table, [label |-> Sub(label, 1, 49), address |-> address])

HasLabel(table, label) == \E k \in 1..Len(table) : table[k].label = label

find_label(table, label) ==
    LET k == CHOOSE k \in 1..Len(table) :
                 /\ table[k].label = label
                 /\ \A j \in (k + 1)..Len(table) : table[j].label # label
    IN  table[k]

(***************************************************************************)
(* printf conversions                                                      *)
(***************************************************************************)

DigitChar(d) == Sub("0123456789", d + 1, d + 1)

\* %d and %llu of a number that fits an int
RECURSIVE ToDec(_)
ToDec(n) ==
    IF n < 0 THEN "-" \o ToDec(0 - n)
    ELSE IF n < 10 THEN DigitChar(n)
    ELSE ToDec(n \div 10) \o DigitChar(n % 10)

(***************************************************************************)
(* Pass 2: macro expansion.  Each expansion is the list of lines it prints *)
(***************************************************************************)

Reg(r) == "r" \o ToDec(r)

expandIn(rD, rS) == <<"\tpriv " \o Reg(rD) \o ", " \o Reg(rS) \o ", r0, 3">>

expandOut(rD, rS) == <<"\tpriv " \o Reg(rD) \o ", " \o Reg(rS) \o ", r0, 4">>

expandClr(rD) == <<"\txor " \o Reg(rD) \o ", " \o Reg(rD) \o ", " \o Reg(rD)>>

expandHalt == <<"\tpriv r0, r0, r0, 0">>

expandPush(rD) == <<"\tmov (r31)(-8), " \o Reg(rD), "\tsubi r31, 8">>

\* expandPop reading the cell below the stack pointer
expandPopBelow(rD) ==
    <<"\tmov " \o Reg(rD) \o ", (r31)(-8)", "\taddi r31, 8">>

expandPop(rD) == <<"\tmov " \o Reg(rD) \o ", (r31)(0)", "\taddi r31, 8">>

\* L >> n for 0 <= n < 64
Shr64(m, n) ==
    LET q == n \div 16
        r == n % 16
        limb(k) == IF k <= 4 THEN m[k] ELSE 0
    IN  [k \in 1..4 |->
            (limb(k + q) \div (2 ^ r)) + (limb(k + q + 1) % (2 ^ r)) * (2 ^ (16 - r))]

\* (L >> n) & mask for a mask 2^j - 1 below 2^16
Window(L, n, mask) == Shr64(L, n)[1] % (mask + 1)

\* expandLd taking four bits only in its fifth window
expandLdNarrow(rD, L) ==
    LET addi(k) == "\taddi " \o Reg(rD) \o ", " \o ToDec(k)
        shftli(n) == "\tshftli " \o Reg(rD) \o ", " \o ToDec(n)
    IN  <<"\txor " \o Reg(rD) \o ", " \o Reg(rD) \o ", " \o Reg(rD),
          addi(Window(L, 52, 4095)), shftli(12),
          addi(Window(L, 40, 4095)), shftli(12),
          addi(Window(L, 28, 4095)), shftli(12),
          addi(Window(L, 16, 4095)), shftli(12),
          addi(Window(L, 4, 15)), shftli(4),
          addi(Window(L, 0, 15))>>

expandLd(rD, L) ==
    LET top12 == Window(L, 52, 4095)
        mid12a == Window(L, 40, 4095)
        mid12b == Window(L, 28, 4095)
        mid12c == Window(L, 16, 4095)
        mid4 == Window(L, 4, 4095)
        last4 == Window(L, 0, 15)
        addi(k) == "\taddi " \o Reg(rD) \o ", " \o ToDec(k)
        shftli(n) == "\tshftli " \o Reg(rD) \o ", " \o ToDec(n)
    IN  <<"\txor " \o Reg(rD) \o ", " \o Reg(rD) \o ", " \o Reg(rD),
          addi(top12), shftli(12),
          addi(mid12a), shftli(12),
          addi(mid12b), shftli(12),
          addi(mid12c), shftli(12),
          addi(mid4), shftli(4),
          addi(last4)>>

(***************************************************************************)
(* The POSIX extended regular expressions of parseMacro, matched by hand:  *)
(* each is anchored at both ends, so a match is a walk over the whole line.*)
(***************************************************************************)

\* "^[[:space:]]*<name>[[:space:]]+r([0-9]+)": the digits of the register
\* are the run from d to e - 1
MatchHead(line, name) ==
    With(SkipWhile(line, 1, SpaceChars), LAMBDA b :
    With(SkipWhile(line, b + Len(name), SpaceChars), LAMBDA r :
    With(SkipWhile(line, r + 1, DecDigits), LAMBDA e :
        [ok |-> /\ Sub(line, b, b + Len(name) - 1) = name
                /\ r > b + Len(name)
                /\ Ch(line, r) = "r"
                /\ e > r + 1,
         d |-> r + 1, e |-> e])))

\* "[[:space:]]*,?[[:space:]]*" from index i: where it ends
SkipSeparator(line, i) ==
    With(SkipWhile(line, i, SpaceChars), LAMBDA a :
        SkipWhile(line, IF Ch(line, a) = "," THEN a + 1 ELSE a, SpaceChars))

AtEnd(line, i) == SkipWhile(line, i, SpaceChars) = Len(line) + 1

LdImmChars == HexDigits \cup {"x", "X", ":"}

\* "(:?)([0-9a-fA-FxX:]+)[[:space:]]*$" from index i: the optional colon is
\* taken when the rest still matches
MatchLdImm(line, i) ==
    With(SkipWhile(line, i, LdImmChars), LAMBDA e :
    With(e > i /\ AtEnd(line, e), LAMBDA ok :
        [ok |-> ok,
         imm |-> IF ok /\ Ch(line, i) = ":" /\ e > i + 1
                 THEN Sub(line, i + 1, e - 1)
                 ELSE Sub(line, i, e - 1)]))

NoMatch == [ok |-> FALSE, reg |-> "", reg2 |-> "", imm |-> ""]

\* the ld pattern.  The register group is the longest run of digits after
\* which the rest matches: the whole run, or, when nothing but the run
\* follows, the run less its last digit, which then is the immediate.
MatchLd(line) ==
    With(MatchHead(line, "ld"), LAMBDA h :
        IF ~h.ok THEN NoMatch
        ELSE With(MatchLdImm(line, SkipSeparator(line, h.e)), LAMBDA full :
             IF full.ok
             THEN [ok |-> TRUE, reg |-> Sub(line, h.d, h.e - 1), reg2 |-> "",
                   imm |-> full.imm]
             ELSE With(MatchLdImm(line, h.e - 1), LAMBDA short :
                  IF h.e - h.d >= 2 /\ short.ok
                  THEN [ok |-> TRUE, reg |-> Sub(line, h.d, h.e - 2), reg2 |-> "",
                        imm |-> short.imm]
                  ELSE NoMatch)))

\* the push and pop patterns: "... r([0-9]+)[[:space:]]*,?[[:space:]]*$"
MatchOneReg(line, name) ==
    With(MatchHead(line, name), LAMBDA h :
        [ok |-> h.ok /\ SkipSeparator(line, h.e) = Len(line) + 1,
         reg |-> Sub(line, h.d, h.e - 1), reg2 |-> "", imm |-> ""])

\* the clr pattern: "... r([0-9]+)[[:space:]]*$"
MatchClr(line) ==
    With(MatchHead(line, "clr"), LAMBDA h :
        [ok |-> h.ok /\ AtEnd(line, h.e),
         reg |-> Sub(line, h.d, h.e - 1), reg2 |-> "", imm |-> ""])

\* the in and out patterns:
\* "... r([0-9]+)[[:space:]]*,?[[:space:]]*r([0-9]+)[[:space:]]*$"
MatchTwoRegs(line, name) ==
    With(MatchHead(line, name), LAMBDA h :
    With(SkipSeparator(line, h.e), LAMBDA r :
    With(SkipWhile(line, r + 1, DecDigits), LAMBDA e :
        [ok |-> h.ok /\ Ch(line, r) = "r" /\ e > r + 1 /\ AtEnd(line, e),
         reg |-> Sub(line, h.d, h.e - 1), reg2 |-> Sub(line, r + 1, e - 1),
         imm |-> ""])))

\* the halt pattern: "^[[:space:]]*halt[[:space:]]*$"
MatchHalt(line) ==
    With(SkipWhile(line, 1, SpaceChars), LAMBDA b :
        Sub(line, b, b + 3) = "halt" /\ AtEnd(line, b + 4))

\* what a call of parseMacro prints: out to the output file, err to stderr
Emit(lines) == [out |-> lines, err |-> <<>>]

Complain(msg) == [out |-> <<>>, err |-> <<msg>>]

\* the ld branch once the pattern has matched
LdMatched(rD, imm, table) ==
    IF ~RegisterInRange(rD)
    THEN Complain("Error: register out of range in ld => " \o Reg(rD))
    ELSE IF Ch(imm, 1) = ":"
    THEN IF ~HasLabel(table, From(imm, 2))
         THEN Complain("Error: label " \o From(imm, 2) \o " not found")
         ELSE Emit(expandLd(rD, U64(find_label(table, From(imm, 2)).address)))
    ELSE With(strtoull(imm), LAMBDA v :
         IF v.erange
         THEN Complain("Error: 'ld' immediate out of 64-bit range => " \o imm)
         ELSE Emit(expandLd(rD, v.val)))

\* parseMacroLd with a pattern that allows no white space before ld
parseMacroLdAnchored(line, table) ==
    With(MatchLd(line), LAMBDA m :
        IF ~m.ok \/ Ch(line, 1) \in SpaceChars
        THEN Complain("Error parsing ld macro: " \o line)
        ELSE LdMatched(atoi(m.reg), m.imm, table))

parseMacroLd(line, table) ==
    With(MatchLd(line), LAMBDA m :
        IF ~m.ok THEN Complain("Error parsing ld macro: " \o line)
        ELSE LdMatched(atoi(m.reg), m.imm, table))

\* the push branch once the pattern has matched
PushMatched(rD, line) ==
    IF ~RegisterInRange(rD)
    THEN Complain("Error: register out of range in push => " \o line)
    ELSE Emit(expandPush(rD))

parseMacroPush(line) ==
    With(MatchOneReg(line, "push"), LAMBDA m :
        IF ~m.ok THEN Complain("Error parsing push macro: " \o line)
        ELSE PushMatched(atoi(m.reg), line))

\* the pop branch once the pattern has matched
PopMatched(rD, line) ==
    IF ~RegisterInRange(rD)
    THEN Complain("Error: register out of range in pop => " \o line)
    ELSE Emit(expandPop(rD))

parseMacroPop(line) ==
    With(MatchOneReg(line, "pop"), LAMBDA m :
        IF ~m.ok THEN Complain("Error parsing pop macro: " \o line)
        ELSE PopMatched(atoi(m.reg), line))

\* the in branch once the pattern has matched
InMatched(rD, rS, line) ==
    IF ~(RegisterInRange(rD) /\ RegisterInRange(rS))
    THEN Complain("Error: register out of range in 'in': " \o line)
    ELSE Emit(expandIn(rD, rS))

parseMacroIn(line) ==
    With(MatchTwoRegs(line, "in"), LAMBDA m :
        IF ~m.ok THEN Complain("Error parsing in macro: " \o line)
        ELSE InMatched(atoi(m.reg), atoi(m.reg2), line))

\* the out branch once the pattern has matched
OutMatched(rD, rS, line) ==
    IF ~(RegisterInRange(rD) /\ RegisterInRange(rS))
    THEN Complain("Error: register out of range in 'out': " \o line)
    ELSE Emit(expandOut(rD, rS))

parseMacroOut(line) ==
    With(MatchTwoRegs(line, "out"), LAMBDA m :
        IF ~m.ok THEN Complain("Error parsing out macro: " \o line)
        ELSE OutMatched(atoi(m.reg), atoi(m.reg2), line))

\* the clr branch once the pattern has matched
ClrMatched(rD, line) ==
    IF ~RegisterInRange(rD)
    THEN Complain("Error: register out of range in clr => " \o line)
    ELSE Emit(expandClr(rD))

parseMacroClr(line) ==
    With(MatchClr(line), LAMBDA m :
        IF ~m.ok THEN Complain("Error parsing clr macro: " \o line)
        ELSE ClrMatched(atoi(m.reg), line))

parseMacroHalt(line) ==
    IF MatchHalt(line) THEN Emit(expandHalt)
    ELSE Complain("Error parsing halt macro: " \o line)

parseMacro(line, table) ==
    With(ScanWord(line, 1, 15), LAMBDA op :
        IF ~op.ok THEN Complain("parseMacro: cannot parse op from line: " \o line)
        ELSE IF op.tok = "ld" THEN parseMacroLd(line, table)
        ELSE IF op.tok = "push" THEN parseMacroPush(line)
        ELSE IF op.tok = "pop" THEN parseMacroPop(line)
        ELSE IF op.tok = "in" THEN parseMacroIn(line)
        ELSE IF op.tok = "out" THEN parseMacroOut(line)
        ELSE IF op.tok = "clr" THEN parseMacroClr(line)
        ELSE IF op.tok = "halt" THEN parseMacroHalt(line)
        ELSE Emit(<<"\t" \o line>>))

MacroOps == {"ld", "push", "pop", "in", "out", "clr", "halt"}

is_macro_line(line) ==
    With(ScanWord(line, 1, 15), LAMBDA op : op.ok /\ op.tok \in MacroOps)

\* *colon = '\0'; snprintf(buffer, sizeof(buffer), "\t%s%d", line, address)
\* Substitute printing the offset from the base address
SubstituteOffset(line, colon, address) ==
    "\t" \o Sub(line, 1, colon - 1) \o ToDec(address - 4096)

Substitute(line, colon, address) == "\t" \o Sub(line, 1, colon - 1) \o ToDec(address)

\* "if the line is a macro, expand; otherwise output as-is"
ExpandOrCopy(text, printed, table) ==
    IF is_macro_line(text) THEN parseMacro(text, table) ELSE Emit(<<printed>>)

\* Resolve taking an absent name for address 0, silently
ResolveAbsentAsZero(line, colon, lbl, table) ==
    With(Substitute(line, colon, IF HasLabel(table, lbl)
                                 THEN find_label(table, lbl).address ELSE 0),
         LAMBDA buffer : ExpandOrCopy(buffer, buffer, table))

\* the label reference of pass2's loop: colon is the index of the first ':'
\* of line and lbl the word scanned after it
Resolve(line, colon, lbl, table) ==
    IF HasLabel(table, lbl)
    THEN With(Substitute(line, colon, find_label(table, lbl).address), LAMBDA buffer :
             ExpandOrCopy(buffer, buffer, table))
    ELSE [out |-> <<"\t" \o line>>,
          err |-> <<"Warning: label '" \o lbl \o "' not found.">>]

\* Pass2Print copying label definitions to the output like content lines
Pass2PrintLabels(line, table) ==
    IF line = "" \/ Ch(line, 1) = ";" THEN Emit(<<>>)
    ELSE IF line = ".code" THEN Emit(<<".code">>)
    ELSE IF line = ".data" THEN Emit(<<".data">>)
    ELSE With(SkipUntil(line, 2, {":"}), LAMBDA colon :
         With(ScanWord(From(line, colon + 1), 1, 49), LAMBDA lbl :
             IF colon <= Len(line) /\ lbl.ok
             THEN Resolve(line, colon, lbl.tok, table)
             ELSE ExpandOrCopy(line, "\t" \o line, table)))

\* what the body of pass2's loop prints for one line already trimmed
Pass2Print(line, table) ==
    IF line = "" \/ Ch(line, 1) = ";" THEN Emit(<<>>)
    ELSE IF line = ".code" THEN Emit(<<".code">>)
    ELSE IF line = ".data" THEN Emit(<<".data">>)
    ELSE IF Ch(line, 1) = ":" THEN Emit(<<>>)
    ELSE With(SkipUntil(line, 1, {":"}), LAMBDA colon :
         With(ScanWord(From(line, colon + 1), 1, 49), LAMBDA lbl :
             IF colon <= Len(line) /\ lbl.ok
             THEN Resolve(line, colon, lbl.tok, table)
             ELSE ExpandOrCopy(line, "\t" \o line, table)))

(***************************************************************************)
(* The run: main calls pass1, pass2, free_hashmap and returns 0; each      *)
(* action is one iteration of a pass's read loop, or the step that follows *)
(* its end of input.                                                       *)
(***************************************************************************)

VARIABLES
    src,            \* the input file: its lines, without the line ends
    stage,          \* "pass1", "pass2", "main" (pass2 has returned), "exited"
    lineNo,         \* lines the running pass has read with fgets
    section,        \* pass1's section: "NONE", "CODE" or "DATA"
    programCounter, \* pass1's programCounter
    hashmap,        \* the label table, oldest entry first
    outOpened,      \* pass2 has opened (and truncated) the output file
    out,            \* the lines written to the output file
    errOut,         \* the lines written to stderr by the passes
    exitCode,       \* the exit status once stage = "exited", -1 before
    sized           \* history: per line pass1 has read, its section and the bytes it added

vars == <<src, stage, lineNo, section, programCounter, hashmap, outOpened,
          out, errOut, exitCode, sized>>

BaseAddress == 4096

\* the contents of a buffer the program reads without having written it,
\* and whether an sscanf that reads the buffer it writes still sees the rest
StaleBuffers == {"", "r0", "(r0)(0)"}

UBChoices == [second : BOOLEAN, stale : StaleBuffers]

\* the outcomes open for a line: validate_mov alone reads such buffers
UBFor(line) ==
    IF ScanWord(line, 1, 31).tok = "mov" THEN UBChoices
    ELSE {[second |-> FALSE, stale |-> ""]}

Programs(pool, n) == UNION {[1..k -> pool] : k \in 1..n}

InitWith(programs) ==
    /\ src \in programs
    /\ stage = "pass1"
    /\ lineNo = 0
    /\ section = "NONE"
    /\ programCounter = BaseAddress
    /\ hashmap = <<>>
    /\ outOpened = FALSE
    /\ out = <<>>
    /\ errOut = <<>>
    /\ exitCode = -1
    /\ sized = <<>>

\* Pass1Line padding an instruction to 8 bytes once the table holds a label
Pass1LinePadded ==
    /\ stage = "pass1"
    /\ lineNo < Len(src)
    /\ \E ub \in UBFor(trim(src[lineNo + 1])) :
        LET line == trim(src[lineNo + 1])
            lab == ScanWord(From(line, 2), 1, 49)
            note(bytes) == Append(sized, [section |-> section, added |-> bytes])
        IN  /\ lineNo' = lineNo + 1
            /\ UNCHANGED <<src, outOpened, out>>
            /\ IF line = "" \/ Ch(line, 1) = ";"
               THEN /\ sized' = note(0)
                    /\ UNCHANGED <<stage, section, programCounter, hashmap, errOut, exitCode>>
               ELSE IF Ch(line, 1) = "."
               THEN /\ section' = IF Sub(line, 1, 5) = ".code" THEN "CODE"
                                  ELSE IF Sub(line, 1, 5) = ".data" THEN "DATA"
                                  ELSE section
                    /\ sized' = note(0)
                    /\ UNCHANGED <<stage, programCounter, hashmap, errOut, exitCode>>
               ELSE IF Ch(line, 1) = ":"
               THEN /\ hashmap' = IF lab.ok THEN add_label(hashmap, lab.tok, programCounter)
                                  ELSE hashmap
                    /\ sized' = note(0)
                    /\ UNCHANGED <<stage, section, programCounter, errOut, exitCode>>
               ELSE IF section = "CODE"
               THEN IF ~is_valid_instruction_pass1(line, ub)
                    THEN /\ errOut' = Append(errOut, "pass1 error: invalid line => " \o line)
                         /\ stage' = "exited"
                         /\ exitCode' = 1
                         /\ sized' = note(0)
                         /\ UNCHANGED <<section, programCounter, hashmap>>
                    ELSE /\ programCounter' = programCounter + CodeSize(line)
                                                 + (IF hashmap # <<>> THEN 4 ELSE 0)
                         /\ sized' = note(CodeSize(line) + (IF hashmap # <<>> THEN 4 ELSE 0))
                         /\ UNCHANGED <<stage, section, hashmap, errOut, exitCode>>
               ELSE IF section = "DATA"
               THEN /\ programCounter' = programCounter + DataSize
                    /\ sized' = note(DataSize)
                    /\ UNCHANGED <<stage, section, hashmap, errOut, exitCode>>
               ELSE /\ sized' = note(0)
                    /\ UNCHANGED <<stage, section, programCounter, hashmap, errOut, exitCode>>

\* Pass1Line giving a label definition the 4 bytes of an instruction
Pass1LineLabelSized ==
    /\ stage = "pass1"
    /\ lineNo < Len(src)
    /\ \E ub \in UBFor(trim(src[lineNo + 1])) :
        LET line == trim(src[lineNo + 1])
            lab == ScanWord(From(line, 2), 1, 49)
            note(bytes) == Append(sized, [section |-> section, added |-> bytes])
        IN  /\ lineNo' = lineNo + 1
            /\ UNCHANGED <<src, outOpened, out>>
            /\ IF line = "" \/ Ch(line, 1) = ";"
               THEN /\ sized' = note(0)
                    /\ UNCHANGED <<stage, section, programCounter, hashmap, errOut, exitCode>>
               ELSE IF Ch(line, 1) = "."
               THEN /\ section' = IF Sub(line, 1, 5) = ".code" THEN "CODE"
                                  ELSE IF Sub(line, 1, 5) = ".data" THEN "DATA"
                                  ELSE section
                    /\ sized' = note(0)
                    /\ UNCHANGED <<stage, programCounter, hashmap, errOut, exitCode>>
               ELSE IF Ch(line, 1) = ":"
               THEN /\ hashmap' = IF lab.ok THEN add_label(hashmap, lab.tok, programCounter)
                                  ELSE hashmap
                    /\ sized' = note(0)
                    /\ programCounter' = programCounter + 4
                    /\ UNCHANGED <<stage, section, errOut, exitCode>>
               ELSE IF section = "CODE"
               THEN IF ~is_valid_instruction_pass1(line, ub)
                    THEN /\ errOut' = Append(errOut, "pass1 error: invalid line => " \o line)
                         /\ stage' = "exited"
                         /\ exitCode' = 1
                         /\ sized' = note(0)
                         /\ UNCHANGED <<section, programCounter, hashmap>>
                    ELSE /\ programCounter' = programCounter + CodeSize(line)
                         /\ sized' = note(CodeSize(line))
                         /\ UNCHANGED <<stage, section, hashmap, errOut, exitCode>>
               ELSE IF section = "DATA"
               THEN /\ programCounter' = programCounter + DataSize
                    /\ sized' = note(DataSize)
                    /\ UNCHANGED <<stage, section, hashmap, errOut, exitCode>>
               ELSE /\ sized' = note(0)
                    /\ UNCHANGED <<stage, section, programCounter, hashmap, errOut, exitCode>>

\* Pass1Line sizing a content line outside any section as an instruction
Pass1LineNoSection ==
    /\ stage = "pass1"
    /\ lineNo < Len(src)
    /\ \E ub \in UBFor(trim(src[lineNo + 1])) :
        LET line == trim(src[lineNo + 1])
            lab == ScanWord(From(line, 2), 1, 49)
            note(bytes) == Append(sized, [section |-> section, added |-> bytes])
        IN  /\ lineNo' = lineNo + 1
            /\ UNCHANGED <<src, outOpened, out>>
            /\ IF line = "" \/ Ch(line, 1) = ";"
               THEN /\ sized' = note(0)
                    /\ UNCHANGED <<stage, section, programCounter, hashmap, errOut, exitCode>>
               ELSE IF Ch(line, 1) = "."
               THEN /\ section' = IF Sub(line, 1, 5) = ".code" THEN "CODE"
                                  ELSE IF Sub(line, 1, 5) = ".data" THEN "DATA"
                                  ELSE section
                    /\ sized' = note(0)
                    /\ UNCHANGED <<stage, programCounter, hashmap, errOut, exitCode>>
               ELSE IF Ch(line, 1) = ":"
               THEN /\ hashmap' = IF lab.ok THEN add_label(hashmap, lab.tok, programCounter)
                                  ELSE hashmap
                    /\ sized' = note(0)
                    /\ UNCHANGED <<stage, section, programCounter, errOut, exitCode>>
               ELSE IF section = "CODE"
               THEN IF ~is_valid_instruction_pass1(line, ub)
                    THEN /\ errOut' = Append(errOut, "pass1 error: invalid line => " \o line)
                         /\ stage' = "exited"
                         /\ exitCode' = 1
                         /\ sized' = note(0)
                         /\ UNCHANGED <<section, programCounter, hashmap>>
                    ELSE /\ programCounter' = programCounter + CodeSize(line)
                         /\ sized' = note(CodeSize(line))
                         /\ UNCHANGED <<stage, section, hashmap, errOut, exitCode>>
               ELSE IF section = "DATA"
               THEN /\ programCounter' = programCounter + DataSize
                    /\ sized' = note(DataSize)
                    /\ UNCHANGED <<stage, section, hashmap, errOut, exitCode>>
               ELSE /\ sized' = note(4)
                    /\ programCounter' = programCounter + 4
                    /\ UNCHANGED <<stage, section, hashmap, errOut, exitCode>>

\* one iteration of pass1's loop; ub resolves what the C library leaves open
Pass1Line ==
    /\ stage = "pass1"
    /\ lineNo < Len(src)
    /\ \E ub \in UBFor(trim(src[lineNo + 1])) :
        LET line == trim(src[lineNo + 1])
            lab == ScanWord(From(line, 2), 1, 49)
            note(bytes) == Append(sized, [section |-> section, added |-> bytes])
        IN  /\ lineNo' = lineNo + 1
            /\ UNCHANGED <<src, outOpened, out>>
            /\ IF line = "" \/ Ch(line, 1) = ";"
               THEN /\ sized' = note(0)
                    /\ UNCHANGED <<stage, section, programCounter, hashmap, errOut, exitCode>>
               ELSE IF Ch(line, 1) = "."
               THEN /\ section' = IF Sub(line, 1, 5) = ".code" THEN "CODE"
                                  ELSE IF Sub(line, 1, 5) = ".data" THEN "DATA"
                                  ELSE section
                    /\ sized' = note(0)
                    /\ UNCHANGED <<stage, programCounter, hashmap, errOut, exitCode>>
               ELSE IF Ch(line, 1) = ":"
               THEN /\ hashmap' = IF lab.ok THEN add_label(hashmap, lab.tok, programCounter)
                                  ELSE hashmap
                    /\ sized' = note(0)
                    /\ UNCHANGED <<stage, section, programCounter, errOut, exitCode>>
               ELSE IF section = "CODE"
               THEN IF ~is_valid_instruction_pass1(line, ub)
                    THEN /\ errOut' = Append(errOut, "pass1 error: invalid line => " \o line)
                         /\ stage' = "exited"
                         /\ exitCode' = 1
                         /\ sized' = note(0)
                         /\ UNCHANGED <<section, programCounter, hashmap>>
                    ELSE /\ programCounter' = programCounter + CodeSize(line)
                         /\ sized' = note(CodeSize(line))
                         /\ UNCHANGED <<stage, section, hashmap, errOut, exitCode>>
               ELSE IF section = "DATA"
               THEN /\ programCounter' = programCounter + DataSize
                    /\ sized' = note(DataSize)
                    /\ UNCHANGED <<stage, section, hashmap, errOut, exitCode>>
               ELSE /\ sized' = note(0)
                    /\ UNCHANGED <<stage, section, programCounter, hashmap, errOut, exitCode>>

\* Pass1Eof taken at any line: pass2 starts while pass1 still has lines to read
Pass1EofEarly ==
    /\ stage = "pass1"
    /\ lineNo <= Len(src)
    /\ stage' = "pass2"
    /\ lineNo' = 0
    /\ outOpened' = TRUE
    /\ out' = <<>>
    /\ UNCHANGED <<src, section, programCounter, hashmap, errOut, exitCode, sized>>

\* pass1 meets end of input and returns; pass2 opens its two files
Pass1Eof ==
    /\ stage = "pass1"
    /\ lineNo = Len(src)
    /\ stage' = "pass2"
    /\ lineNo' = 0
    /\ outOpened' = TRUE
    /\ out' = <<>>
    /\ UNCHANGED <<src, section, programCounter, hashmap, errOut, exitCode, sized>>

\* the fprintf calls of one iteration of pass2's loop
Pass2Write(r) ==
    /\ out' = out \o r.out
    /\ errOut' = errOut \o r.err

\* one iteration of pass2's loop
Pass2Line ==
    /\ stage = "pass2"
    /\ lineNo < Len(src)
    /\ Pass2Write(Pass2Print(trim(src[lineNo + 1]), hashmap))
    /\ lineNo' = lineNo + 1
    /\ UNCHANGED <<src, stage, section, programCounter, hashmap, outOpened, exitCode, sized>>

\* pass2 meets end of input, closes its files and returns
Pass2Eof ==
    /\ stage = "pass2"
    /\ lineNo = Len(src)
    /\ stage' = "main"
    /\ UNCHANGED <<src, lineNo, section, programCounter, hashmap, outOpened,
                   out, errOut, exitCode, sized>>

\* MainReturn with an exit code that reports the diagnostics of Pass 2 as well
MainReturnDiagnosed ==
    /\ stage = "main"
    /\ hashmap' = <<>>
    /\ stage' = "exited"
    /\ exitCode' = IF errOut = <<>> THEN 0 ELSE 1
    /\ UNCHANGED <<src, lineNo, section, programCounter, outOpened, out, errOut, sized>>

\* main frees the table and returns 0
MainReturn ==
    /\ stage = "main"
    /\ hashmap' = <<>>
    /\ stage' = "exited"
    /\ exitCode' = 0
    /\ UNCHANGED <<src, lineNo, section, programCounter, outOpened, out, errOut, sized>>

Next == Pass1Line \/ Pass1Eof \/ Pass2Line \/ Pass2Eof \/ MainReturn

(***************************************************************************)
(* Inputs.  Layout programs mix directives, labels, references and macros. *)
(***************************************************************************)

MaxLines == 4

LayoutLines ==
    {".code", ".data", ":A", ":B", "add r1, r2, r3", "ld r1, :B",
     "push r1", "br :A", "frob r1"}

Init == InitWith(Programs(LayoutLines, MaxLines))

Spec == Init /\ [][Next]_vars

(***************************************************************************)
(* Code programs: ".code" and then up to MaxBody lines, taken from every   *)
(* kind of line the code section can hold: each macro well formed and      *)
(* malformed, ordinary instructions, operands out of range, unknown        *)
(* mnemonics, labels and references.                                       *)
(***************************************************************************)

MaxBody == 2

CodeLines ==
    {"add r1, r2, r3", "add r1, r2, r40", "not r1, r2",
     "addi r1, 5", "shftli r2, 12", "addi r33, 5",
     "br r4", "br :L", "brr r32", "brr -4", "brnz r1, r2", "call r5",
     "return", "brgt r1, r2, r3", "mulf r1, r2, r3",
     "mov r1, r2", "mov r1, r32", "mov r1, (r2)(8)", "mov (r40)(8), r1",
     "halt", "halt now", "in r1, r2", "in r1", "out r3, r32",
     "clr r6", "clr",
     "ld r1, 4096", "ld r2, :L", "ld r3, :M", "ld r1", "ld r32, 1",
     "push r1", "push", "push r32", "pop r2", "pop r99",
     "frob r1", "priv r0, r0, r0, 0", "ADD r1, r2, r3", "ld,r1",
     ":L", "  ; note"}

CodePrograms ==
    {<<".code">> \o body : body \in Programs(CodeLines, MaxBody)}

InitCode == InitWith(CodePrograms)

SpecCode == InitCode /\ [][Next]_vars

(***************************************************************************)
(* Immediate programs: ".code" and one line with a literal operand, the    *)
(* literal taken from the edges of the 12-bit ranges and of the 64-bit     *)
(* conversions.                                                            *)
(***************************************************************************)

Numerals ==
    {"0", "1", "5", "2047", "2048", "4095", "4096", "65536",
     "-1", "-5", "-2048", "-2049", "-4095", "-4096",
     "9223372036854775807", "9223372036854775808",
     "-9223372036854775808", "-9223372036854775809",
     "18446744073709551615", "18446744073709551616",
     "-18446744073709551615", "-18446744073709551616",
     "-18446744073709547521", "-18446744073709547520"}

ImmRegs == {"r0", "r7", "r31"}

ImmLines ==
    {m \o " r1, " \o n : m \in ImmediateOps, n \in Numerals}
    \cup {"brr " \o n : n \in Numerals}
    \cup {"mov " \o r \o ", " \o n : r \in ImmRegs, n \in Numerals}
    \cup {"mov " \o r \o ", (r2)(" \o n \o ")" : r \in ImmRegs, n \in Numerals}
    \cup {"mov (r2)(" \o n \o "), " \o r : r \in ImmRegs, n \in Numerals}

ImmPrograms == {<<".code", line>> : line \in ImmLines}

InitImm == InitWith(ImmPrograms)

SpecImm == InitImm /\ [][Next]_vars


(***************************************************************************)
(* What the properties speak of, read from the source text of the program  *)
(* being assembled and from the record of Pass 1.                          *)
(***************************************************************************)

\* the line at position i, without its surrounding whitespace
Line(i) == trim(src[i])

\* a line that is neither blank, nor a comment, a directive or a label
IsContent(line) == line # "" /\ Ch(line, 1) \notin {";", ".", ":"}

\* a label definition and the name it defines
IsLabelDef(line) == Ch(line, 1) = ":" /\ ScanWord(line, 2, 49).ok

LabelName(line) == ScanWord(line, 2, 49).tok

\* the leading token of a line
Mnemonic(line) == Sub(line, 1, SkipUntil(line, 1, SpaceChars) - 1)

\* the size of a content line as the specification gives it
SizeOf(sect, line) ==
    IF sect = "DATA" THEN 8
    ELSE IF sect # "CODE" THEN 0
    ELSE IF Mnemonic(line) = "ld" THEN 48
    ELSE IF Mnemonic(line) \in {"push", "pop"} THEN 8
    ELSE 4

\* the sizes of the content lines among the first n lines
RECURSIVE SizeBefore(_)
SizeBefore(n) ==
    IF n = 0 THEN 0
    ELSE SizeBefore(n - 1)
         + (IF IsContent(Line(n)) THEN SizeOf(sized[n].section, Line(n)) ELSE 0)

\* the labels defined among the first n lines, each with the address it denotes
RECURSIVE ExpectedTable(_)
ExpectedTable(n) ==
    IF n = 0 THEN <<>>
    ELSE IF IsLabelDef(Line(n))
         THEN Append(ExpectedTable(n - 1),
                     [label |-> LabelName(Line(n)),
                      address |-> 4096 + SizeBefore(n - 1)])
         ELSE ExpectedTable(n - 1)

\* Pass 1 accepted line i
Accepted(i) == i <= Len(sized) /\ ~(i = Len(sized) /\ exitCode = 1)

(***************************************************************************)
(* C1: once Pass 1 has read the whole file, every label defined in it      *)
(* stands in the table with the address 4096 plus the sizes of all content *)
(* lines before its definition; during Pass 1 the same holds of the lines  *)
(* read so far.                                                            *)
(***************************************************************************)
C1_LabelAddress ==
    /\ stage \in {"pass2", "main"} => hashmap = ExpectedTable(Len(src))
    /\ stage = "pass1" => hashmap = ExpectedTable(lineNo)

C1_Witness ==
    /\ stage = "pass2"
    /\ \E k \in 1..Len(hashmap) : hashmap[k].address = 4096 + 48 + 8
    /\ \E i \in 1..Len(src) : Line(i) = "ld r1, :B"
    /\ \E i \in 1..Len(src) : Line(i) = "push r1"

(***************************************************************************)
(* C3: in the code section Pass 1 advances the program counter by 48 for   *)
(* an ld line, by 8 for a push or pop line and by 4 for every other        *)
(* accepted instruction; it advances by nothing else.                      *)
(***************************************************************************)
C3_Step ==
    (stage = "pass1" /\ lineNo < Len(src) /\ section = "CODE")
    => LET line == Line(lineNo + 1)
           d == programCounter' - programCounter
       IN  /\ d \in {0, 4, 8, 48}
           /\ IsContent(line) /\ Mnemonic(line) = "ld" => d = 48
           /\ IsContent(line) /\ Mnemonic(line) \in {"push", "pop"} => d = 8
           /\ (IsContent(line) /\ Mnemonic(line) \notin {"ld", "push", "pop"}
                 /\ stage' = "pass1") => d = 4
           /\ d = 0 => ~IsContent(line) \/ stage' = "exited"

C5_Step ==
    /\ stage # "exited"
    /\ (stage = "pass1" /\ lineNo < Len(src) /\ section = "CODE"
          /\ IsContent(Line(lineNo + 1)) /\ Mnemonic(Line(lineNo + 1)) \notin ops)
       => /\ stage' = "exited"
          /\ exitCode' = 1
          /\ programCounter' = programCounter
          /\ ~outOpened' /\ out' = <<>>

C5_UnknownMnemonic ==
    /\ [][C5_Step]_vars
    /\ [](exitCode = 1 => stage = "exited" /\ ~outOpened /\ out = <<>>)

C5_Witness ==
    /\ stage = "exited" /\ exitCode = 1
    /\ lineNo = 3 /\ Len(src) = 3
    /\ Line(2) = "add r1, r2, r3"
    /\ Line(3) = "frob r1"
    /\ programCounter = 4096 + 4
    /\ ~outOpened


(***************************************************************************)
(* C2: for every content line of the code section that Pass 1 accepted,    *)
(* four times the number of lines Pass 2 writes for it is the number of    *)
(* bytes Pass 1 added to the program counter for it.                       *)
(***************************************************************************)
C2_Step ==
    (stage = "pass2" /\ lineNo < Len(src) /\ lineNo' = lineNo + 1
       /\ sized[lineNo + 1].section = "CODE" /\ IsContent(Line(lineNo + 1)))
    => (Len(out') - Len(out)) * 4 = sized[lineNo + 1].added

C2_SizeAgreement == [][C2_Step]_vars

\* the index of the first ':' of a line, beyond its end when it has none
Marker(line) == SkipUntil(line, 1, {":"})

\* the name a line refers to
Reference(line) == ScanWord(From(line, Marker(line) + 1), 1, 49)

\* the line refers to a label that the program defines
RefersToDefined(line) ==
    /\ Marker(line) <= Len(line)
    /\ Reference(line).ok
    /\ \E i \in 1..Len(src) :
          IsLabelDef(Line(i)) /\ LabelName(Line(i)) = Reference(line).tok

\* a text of decimal digits only
IsDecimal(text) ==
    text # "" /\ \A k \in 1..Len(text) : Ch(text, k) \in DecDigits

(***************************************************************************)
(* C4: for a content line that is no macro and refers to a defined label,  *)
(* Pass 2 writes one line: a tab, the text before the marker, and the      *)
(* decimal address that the look-up of the name in the table of Pass 1     *)
(* returns. The table does not change during Pass 2, so a reference before *)
(* the definition and one after it give the same address.                  *)
(***************************************************************************)
C4_Step ==
    (stage = "pass2" /\ lineNo < Len(src) /\ lineNo' = lineNo + 1)
    => LET line == Line(lineNo + 1)
           written == out'[Len(out')]
       IN  /\ hashmap' = hashmap
           /\ hashmap = ExpectedTable(Len(src))
           /\ (IsContent(line) /\ Mnemonic(line) \notin MacroOps
                 /\ RefersToDefined(line))
              => /\ Len(out') = Len(out) + 1
                 /\ Sub(written, 1, Marker(line))
                       = "\t" \o Sub(line, 1, Marker(line) - 1)
                 /\ IsDecimal(From(written, Marker(line) + 1))
                 /\ AtoiDigits(From(written, Marker(line) + 1), 1, 0)
                       = find_label(hashmap, Reference(line).tok).address

C4_Reference == [][C4_Step]_vars

\* a forward and a backward reference to one label, both written
C4_Witness ==
    /\ stage = "pass2" /\ lineNo = 4
    /\ src = <<".code", "br :A", ":A", "br :A">>
    /\ out = <<".code", "\tbr 4100", "\tbr 4100">>

\* a register operand starts at position k of the line
RegisterAt(line, k) ==
    /\ Ch(line, k) = "r"
    /\ k > 1 /\ Ch(line, k - 1) \in {" ", "\t", ",", "("}
    /\ Ch(line, k + 1) \in DecDigits

\* the index written in the register operand at position k
RegisterIndex(line, k) ==
    AtoiDigits(Sub(line, k + 1, SkipWhile(line, k + 1, DecDigits) - 1), 1, 0)

\* the line has a register operand whose index is outside 0..31
HasBadRegister(line) ==
    \E k \in 1..Len(line) : RegisterAt(line, k) /\ RegisterIndex(line, k) > 31

(***************************************************************************)
(* C6: a line of the code section with a mnemonic of the catalog and a     *)
(* register operand outside 0..31 ends the run with exit code 1 and        *)
(* without output, whatever the mnemonic and the position of the operand.  *)
(***************************************************************************)
C6_RegisterFatal ==
    \A i \in 1..Len(sized) :
       (sized[i].section = "CODE" /\ IsContent(Line(i))
          /\ Mnemonic(Line(i)) \in ops /\ HasBadRegister(Line(i)))
       => stage = "exited" /\ exitCode = 1 /\ out = <<>>


\* the digits of a numeral, without its sign
Digits(n) == IF Ch(n, 1) = "-" THEN From(n, 2) ELSE n

\* the numeral, read as a decimal integer, lies in lo..hi (lo and hi of at
\* most five digits)
DecimalInRange(n, lo, hi) ==
    /\ IsDecimal(Digits(n))
    /\ Len(Digits(n)) <= 5
    /\ LET v == AtoiDigits(Digits(n), 1, 0)
       IN  IF Ch(n, 1) = "-" THEN lo <= -v /\ -v <= hi ELSE lo <= v /\ v <= hi

\* the numeral is negative and 2^64 minus its magnitude lies in 1..4095:
\* its magnitude lies in 18446744073709547521..18446744073709551615
WrapsInto12Bits(n) ==
    /\ Ch(n, 1) = "-"
    /\ IsDecimal(Digits(n))
    /\ Len(Digits(n)) = 20
    /\ Sub(Digits(n), 1, 15) = "184467440737095"
    /\ AtoiDigits(Sub(Digits(n), 16, 20), 1, 0) \in 47521..51615

\* the second line of the program has been read by Pass 1
SecondLineRead == Len(sized) >= 2

(***************************************************************************)
(* C7: a line addi, subi, shftri or shftli with a valid register is        *)
(* accepted by Pass 1 exactly when its immediate lies in 0..4095; every    *)
(* negative immediate is rejected.                                         *)
(***************************************************************************)
C7_Unsigned12 ==
    \A m \in ImmediateOps, n \in Numerals :
       (SecondLineRead /\ Line(2) = m \o " r1, " \o n)
       => (Accepted(2) <=> DecimalInRange(n, 0, 4095))

(***************************************************************************)
(* C8: a displacement of brr and an offset inside a memory operand of mov  *)
(* are accepted by Pass 1 exactly when they lie in -2048..2047.            *)
(***************************************************************************)
C8_Signed12 ==
    \A n \in Numerals :
       /\ (SecondLineRead /\ Line(2) = "brr " \o n)
          => (Accepted(2) <=> DecimalInRange(n, -2048, 2047))
       /\ \A r \in ImmRegs :
            /\ (SecondLineRead /\ Line(2) = "mov " \o r \o ", (r2)(" \o n \o ")")
               => (Accepted(2) <=> DecimalInRange(n, -2048, 2047))
            /\ (SecondLineRead /\ Line(2) = "mov (r2)(" \o n \o "), " \o r)
               => (Accepted(2) <=> DecimalInRange(n, -2048, 2047))

\* -2048 accepted as the offset of a store
C8_Witness ==
    /\ stage = "pass2"
    /\ src = <<".code", "mov (r2)(-2048), r7">>
    /\ programCounter = 4096 + 4

LdRegs == {"r0", "r5", "r31"}

LdLiterals ==
    {[text |-> "0", val |-> <<0, 0, 0, 0>>],
     [text |-> "1", val |-> <<1, 0, 0, 0>>],
     [text |-> "15", val |-> <<15, 0, 0, 0>>],
     [text |-> "16", val |-> <<16, 0, 0, 0>>],
     [text |-> "4095", val |-> <<4095, 0, 0, 0>>],
     [text |-> "4096", val |-> <<4096, 0, 0, 0>>],
     [text |-> "65535", val |-> <<65535, 0, 0, 0>>],
     [text |-> "0xFFF0", val |-> <<65520, 0, 0, 0>>],
     [text |-> "0x10000", val |-> <<0, 1, 0, 0>>],
     [text |-> "4503599627370496", val |-> <<0, 0, 0, 16>>],
     [text |-> "9223372036854775808", val |-> <<0, 0, 0, 32768>>],
     [text |-> "18446744073709551615", val |-> <<65535, 65535, 65535, 65535>>],
     [text |-> "0xffffffffffffffff", val |-> <<65535, 65535, 65535, 65535>>],
     [text |-> "0x123456789ABCDEF0", val |-> <<57072, 39612, 22136, 4660>>],
     [text |-> "0xFEDCBA9876543210", val |-> <<12816, 30292, 47768, 65244>>],
     [text |-> "0xF00F00F00F00F00F", val |-> <<61455, 3840, 240, 61455>>],
     [text |-> "1311768467463790320", val |-> <<57072, 39612, 22136, 4660>>],
     [text |-> "0x8000000000000001", val |-> <<1, 0, 0, 32768>>],
     [text |-> "017", val |-> <<15, 0, 0, 0>>]}

LdPrograms ==
    {<<".code", "ld " \o r \o ", " \o lit.text>> : r \in LdRegs, lit \in LdLiterals}

InitLd == InitWith(LdPrograms)

SpecLd == InitLd /\ [][Next]_vars

\* m + k modulo 2^64, for 0 <= k < 2^16
Add64(m, k) ==
    LET t0 == m[1] + k
        t1 == m[2] + (t0 \div 65536)
        t2 == m[3] + (t1 \div 65536)
        t3 == m[4] + (t2 \div 65536)
    IN  <<t0 % 65536, t1 % 65536, t2 % 65536, t3 % 65536>>

\* m << n modulo 2^64, for 0 <= n < 16
Shl64(m, n) ==
    <<(m[1] * 2 ^ n) % 65536,
      ((m[2] * 2 ^ n) % 65536) + ((m[1] * 2 ^ n) \div 65536),
      ((m[3] * 2 ^ n) % 65536) + ((m[2] * 2 ^ n) \div 65536),
      ((m[4] * 2 ^ n) % 65536) + ((m[3] * 2 ^ n) \div 65536)>>

\* the instruction text is op r, <decimal>
IsImmediateForm(text, op, r) ==
    LET head == "\t" \o op \o " " \o r \o ", "
    IN  /\ Sub(text, 1, Len(head)) = head
        /\ IsDecimal(From(text, Len(head) + 1))

\* the number an instruction text ends with
Operand(text) ==
    AtoiDigits(From(text, SkipUntil(text, 1, {","}) + 2), 1, 0)

\* the register after one addi or shftli instruction
Step(text, reg) ==
    IF Sub(text, 1, 6) = "\taddi " THEN Add64(reg, Operand(text))
    ELSE Shl64(reg, Operand(text))

\* the values of the register after each of the first k instructions of
\* code, the first of which zeroes it
RECURSIVE RegisterTrace(_, _)
RegisterTrace(code, k) ==
    IF k = 1 THEN << <<0, 0, 0, 0>> >>
    ELSE LET before == RegisterTrace(code, k - 1)
         IN  Append(before, Step(code[k], before[k - 1]))

\* the twelve instructions are the expansion of a load of value into r
IsLoadOf(code, r, value) ==
    /\ Len(code) = 12
    /\ code[1] = "\txor " \o r \o ", " \o r \o ", " \o r
    /\ \A j \in 1..5 :
          /\ IsImmediateForm(code[2 * j], "addi", r)
          /\ IsImmediateForm(code[2 * j + 1], "shftli", r)
    /\ IsImmediateForm(code[12], "addi", r)
    \* executed from the zeroed register, they leave the value
    /\ RegisterTrace(code, 12)[12] = value
    \* the first window has 12 bits and each later one as many as the shift
    \* before it: no chunk reaches into the bits of the chunk before
    /\ Operand(code[2]) < 2 ^ 12
    /\ \A j \in 1..5 : Operand(code[2 * j + 2]) < 2 ^ Operand(code[2 * j + 1])
    /\ 12 + Operand(code[3]) + Operand(code[5]) + Operand(code[7])
          + Operand(code[9]) + Operand(code[11]) = 64
    /\ \A j \in 1..6 : Operand(code[2 * j]) \in 0..4095

(***************************************************************************)
(* C10: the expansion of ld rD, L is twelve instructions: a xor of rD with *)
(* itself, then addi of a chunk and shftli in turn, ending with an addi.   *)
(* Executed modulo 2^64 they leave L in rD; the widths of the windows sum  *)
(* to 64, the windows do not overlap and every chunk lies in 0..4095.      *)
(***************************************************************************)
C10_LdExpansion ==
    \A r \in LdRegs, lit \in LdLiterals :
       (stage = "main" /\ src[2] = "ld " \o r \o ", " \o lit.text)
       => /\ out[1] = ".code"
          /\ IsLoadOf(Tail(out), r, lit.val)

C10_Witness ==
    /\ stage = "main"
    /\ src[2] = "ld r5, 0xFEDCBA9876543210"
    /\ Len(out) = 13
    /\ out[2] = "\txor r5, r5, r5"
    /\ out[3] = "\taddi r5, 4077"
    /\ out[11] = "\taddi r5, 801"
    /\ out[12] = "\tshftli r5, 4"
    /\ out[13] = "\taddi r5, 0"


(***************************************************************************)
(* Stack programs: ".code" and then a push and a pop, or two pushes and    *)
(* two pops, of registers that include the stack pointer r31.              *)
(***************************************************************************)

StackRegs == {"r0", "r3", "r30", "r31"}

StackPrograms ==
    {<<".code", "push " \o a, "pop " \o x>> : a \in StackRegs, x \in StackRegs}
    \cup {<<".code", "push " \o a, "push " \o b, "pop " \o x, "pop " \o y>> :
             a \in StackRegs, b \in StackRegs, x \in StackRegs, y \in StackRegs}

InitStack == InitWith(StackPrograms)

SpecStack == InitStack /\ [][Next]_vars

\* a machine that executes the written instructions: 32 registers and a
\* memory of the cells written so far
StartMachine ==
    [reg |-> [i \in 0..31 |-> IF i = 31 THEN 5000 ELSE 100 + i],
     mem |-> [a \in {} |-> 0]]

\* the index of the register named at position i of a text ("r12")
RegNum(text, i) == AtoiDigits(text, i + 1, 0)

\* the signed number between positions i and j of a text
SignedNum(text, i, j) ==
    IF Ch(text, i) = "-" THEN 0 - AtoiDigits(Sub(text, i + 1, j), 1, 0)
    ELSE AtoiDigits(Sub(text, i, j), 1, 0)

\* the memory operand "(rB)(L)" that starts at position i of a text
MemRef(text, i) ==
    LET close1 == SkipUntil(text, i, {")"})
        close2 == SkipUntil(text, close1 + 1, {")"})
    IN  [base |-> RegNum(text, i + 1),
         offset |-> SignedNum(text, close1 + 2, close2 - 1),
         next |-> close2 + 1]

\* the machine after one instruction: addi and subi on a register,
\* mov (rB)(L), rS stores rS at rB + L, mov rD, (rB)(L) loads rD from rB + L
Exec(text, m) ==
    LET ops6 == Sub(text, 1, 6)
        arg == From(text, 7)
        comma == SkipUntil(arg, 1, {","})
    IN  IF ops6 = "\taddi "
        THEN [m EXCEPT !.reg[RegNum(arg, 1)] = @ + SignedNum(arg, comma + 2, Len(arg))]
        ELSE IF ops6 = "\tsubi "
        THEN [m EXCEPT !.reg[RegNum(arg, 1)] = @ - SignedNum(arg, comma + 2, Len(arg))]
        ELSE LET marg == From(text, 6)
             IN  IF Ch(marg, 1) = "("
                 THEN LET ref == MemRef(marg, 1)
                          cell == m.reg[ref.base] + ref.offset
                          value == m.reg[RegNum(marg, ref.next + 2)]
                      IN  [m EXCEPT !.mem = [a \in DOMAIN m.mem \cup {cell} |->
                                                IF a = cell THEN value ELSE m.mem[a]]]
                 ELSE LET ref == MemRef(marg, SkipUntil(marg, 1, {"("}))
                          cell == m.reg[ref.base] + ref.offset
                      IN  [m EXCEPT !.reg[RegNum(marg, 1)] =
                                       IF cell \in DOMAIN m.mem THEN m.mem[cell] ELSE 0]

\* the machines after each of the first k written instructions, from start
RECURSIVE MachineTrace(_, _, _)
MachineTrace(code, k, start) ==
    IF k = 0 THEN <<start>>
    ELSE LET before == MachineTrace(code, k - 1, start)
         IN  Append(before, Exec(code[k], before[k]))

\* the machine after all instructions written to the output
FinalMachine == MachineTrace(Tail(out), Len(out) - 1, StartMachine)[Len(out)]

(***************************************************************************)
(* C11: executing the instructions written for push rD and then those      *)
(* written for pop rD leaves r31 as it was, for every register rD of       *)
(* 0..31.                                                                  *)
(***************************************************************************)
C11_StackPointer ==
    \A r \in StackRegs :
       (stage = "main" /\ src = <<".code", "push " \o r, "pop " \o r>>)
       => /\ Len(out) = 5
          /\ FinalMachine.reg[31] = StartMachine.reg[31]

(***************************************************************************)
(* C12: for registers of 0..30, executing the instructions written for     *)
(* push rD and pop rE leaves in rE the value rD had, both through the same *)
(* memory cell; after push a, push b, pop x, pop y the pop of x has loaded *)
(* the value of b and the pop of y the value of a.                         *)
(***************************************************************************)
C12_PopInvertsPush ==
    \A a \in StackRegs \ {"r31"}, x \in StackRegs \ {"r31"} :
       /\ (stage = "main" /\ src = <<".code", "push " \o a, "pop " \o x>>)
          => /\ Len(out) = 5
             /\ FinalMachine.reg[RegNum(x, 1)] = StartMachine.reg[RegNum(a, 1)]
             /\ FinalMachine.mem = [c \in {5000 - 8} |-> StartMachine.reg[RegNum(a, 1)]]
             /\ FinalMachine.reg[31] = 5000
       /\ \A b \in StackRegs \ {"r31"}, y \in StackRegs \ {"r31"} :
            (stage = "main"
               /\ src = <<".code", "push " \o a, "push " \o b, "pop " \o x, "pop " \o y>>)
            => /\ Len(out) = 9
               /\ LET trace == MachineTrace(Tail(out), 8, StartMachine)
                  IN  /\ trace[7].reg[RegNum(x, 1)] = StartMachine.reg[RegNum(b, 1)]
                      /\ trace[9].reg[RegNum(y, 1)] = StartMachine.reg[RegNum(a, 1)]
                      /\ x # y => trace[9].reg[RegNum(x, 1)] = StartMachine.reg[RegNum(b, 1)]
                      /\ trace[9].reg[31] = 5000

C12_Witness ==
    /\ stage = "main"
    /\ src = <<".code", "push r0", "push r3", "pop r30", "pop r3">>
    /\ out = <<".code", "\tmov (r31)(-8), r0", "\tsubi r31, 8",
               "\tmov (r31)(-8), r3", "\tsubi r31, 8",
               "\tmov r30, (r31)(0)", "\taddi r31, 8",
               "\tmov r3, (r31)(0)", "\taddi r31, 8">>
    /\ FinalMachine.reg[30] = 103 /\ FinalMachine.reg[3] = 100


\* the line refers to a name that no line of the program defines
RefersToUndefined(line) ==
    /\ Marker(line) <= Len(line)
    /\ Reference(line).ok
    /\ ~\E i \in 1..Len(src) :
          IsLabelDef(Line(i)) /\ LabelName(Line(i)) = Reference(line).tok

(***************************************************************************)
(* C13: for a content line that refers to a name defined nowhere in the    *)
(* program, Pass 2 writes one warning that names it, writes the line with  *)
(* its reference left as it was and no address in its place, and goes on   *)
(* with the next line.                                                     *)
(***************************************************************************)
C13_Step ==
    (stage = "pass2" /\ lineNo < Len(src) /\ lineNo' = lineNo + 1)
    => LET line == Line(lineNo + 1)
       IN  (IsContent(line) /\ RefersToUndefined(line))
           => /\ errOut' = Append(errOut, "Warning: label '" \o Reference(line).tok
                                             \o "' not found.")
              /\ out' = Append(out, "\t" \o line)
              /\ Sub(out'[Len(out')], Marker(line) + 1,
                     Marker(line) + 1 + Len(Reference(line).tok))
                    = ":" \o Reference(line).tok
              /\ ~IsDecimal(From(out'[Len(out')], Marker(line) + 1))
              /\ stage' = "pass2" /\ exitCode' = -1
              /\ ~HasLabel(hashmap, Reference(line).tok)

ExampleFirst == {"addi r1, 5", "addi r1, 4095", "subi r1, 5"}

ExampleLast == {"brr :START", "brr -16", "br :START", "brr r3"}

ExamplePrograms ==
    {<<".code", ":START", a, "push r1", "pop r2", b>> :
        a \in ExampleFirst, b \in ExampleLast}

InitExample == InitWith(ExamplePrograms)

SpecExample == InitExample /\ [][Next]_vars

(***************************************************************************)
(* C15: for the example program Pass 2 writes the addi line unchanged, two *)
(* instructions for push r1, two for pop r2, and for brr :START a line     *)
(* whose operand is the relative offset -16.                               *)
(***************************************************************************)
C15_Example ==
    (stage = "main"
       /\ src = <<".code", ":START", "addi r1, 5", "push r1", "pop r2", "brr :START">>)
    => /\ Len(out) = 7
       /\ out[2] = "\taddi r1, 5"
       /\ SubSeq(out, 3, 4) = expandPush(1)
       /\ SubSeq(out, 5, 6) = expandPop(2)
       /\ out[7] = "\tbrr -16"


(***************************************************************************)
(* C16: for a line ld rD, :NAME whose NAME is defined somewhere in the     *)
(* program, before or after the line, Pass 2 writes the twelve             *)
(* instructions it writes for ld rD, A, where A is the address that the    *)
(* table holds for NAME.                                                   *)
(***************************************************************************)
C16_Step ==
    (stage = "pass2" /\ lineNo < Len(src) /\ lineNo' = lineNo + 1)
    => LET line == Line(lineNo + 1)
           written == SubSeq(out', Len(out) + 1, Len(out'))
           A == find_label(hashmap, Reference(line).tok).address
           literal == Sub(line, 1, Marker(line) - 1) \o ToDec(A)
       IN  (Mnemonic(line) = "ld" /\ RefersToDefined(line))
           => /\ hashmap = ExpectedTable(Len(src))
              /\ Len(written) = 12
              /\ written = Pass2Print(literal, hashmap).out
              /\ written = expandLd(RegisterIndex(line, SkipUntil(line, 3, {"r"})), U64(A))
              /\ errOut' = errOut

C16_LdReference == [][C16_Step]_vars

\* a forward reference: the label is defined after the ld and an instruction
C16_Witness ==
    /\ stage = "main"
    /\ src = <<".code", "ld r1, :B", "add r1, r2, r3", ":B">>
    /\ hashmap = <<[label |-> "B", address |-> 4148]>>
    /\ Len(out) = 14
    /\ SubSeq(out, 2, 13) = Pass2Print("ld r1, 4148", hashmap).out
    /\ out[2] = "\txor r1, r1, r1" /\ out[11] = "\taddi r1, 259" /\ out[13] = "\taddi r1, 4"


\* the names defined by the lines that Pass 1 has read
DefinedNames ==
    {LabelName(Line(i)) : i \in {j \in 1..Len(sized) : IsLabelDef(Line(j))}}

(***************************************************************************)
(* C17: whatever label definitions Pass 1 has read, duplicates among them  *)
(* or not, the table holds one entry, hence one address, for each defined  *)
(* name and no other entry.                                                *)
(***************************************************************************)
C17_OneEntryPerName ==
    (stage \in {"pass1", "pass2", "main"})
    => /\ {hashmap[k].label : k \in 1..Len(hashmap)} = DefinedNames
       /\ \A name \in DefinedNames :
             Cardinality({k \in 1..Len(hashmap) : hashmap[k].label = name}) = 1


(***************************************************************************)
(* C18: a step of Pass 2 is taken only when Pass 1 has read every line of  *)
(* the source and accepted it; no step of Pass 2 adds, removes or changes  *)
(* an entry of the table; entries leave the table only after Pass 2 has    *)
(* read every line and returned.                                           *)
(***************************************************************************)
C18_Step ==
    /\ (stage = "pass2" \/ out' # out \/ outOpened)
       => /\ Len(sized) = Len(src)
          /\ \A i \in 1..Len(src) : Accepted(i)
    /\ stage = "pass2" => hashmap' = hashmap
    /\ stage = "pass1" => (out' = out /\ stage' \in {"pass1", "pass2", "exited"})
    /\ (\E k \in 1..Len(hashmap) : k > Len(hashmap') \/ hashmap'[k] # hashmap[k])
       => /\ stage = "main"
          /\ Len(sized) = Len(src)
          /\ lineNo = Len(src)
          /\ outOpened

C18_PassOrder == [][C18_Step]_vars

\* a run that filled the table in Pass 1, wrote in Pass 2 and then freed it
C18_Witness ==
    /\ stage = "exited" /\ exitCode = 0
    /\ src = <<".code", ":A", "br :A", ":B">>
    /\ out = <<".code", "\tbr 4096">>
    /\ hashmap = <<>>


(***************************************************************************)
(* Data programs: ".data" and then lines of any kind, among them lines     *)
(* that the code section rejects, and directives that change the section.  *)
(***************************************************************************)

DataLines ==
    {"5", "-1", "frob r1", "ld r1, :L", "ld r1", "push r99", "addi r1, 4096",
     "add r1, r2, r40", "mov r1", "brr 99999", "halt now", ":L", "; note",
     ".code", ".data"}

DataPrograms == {<<".data">> \o body : body \in Programs(DataLines, MaxBody)}

InitData == InitWith(DataPrograms)

SpecData == InitData /\ [][Next]_vars

(***************************************************************************)
(* C19: in the data section Pass 1 advances the counter by exactly 8 for   *)
(* every content line, whatever its text (an unknown mnemonic, a macro, an *)
(* operand out of range), and the line never ends the run.                 *)
(***************************************************************************)
C19_Step ==
    (stage = "pass1" /\ lineNo < Len(src) /\ section = "DATA"
       /\ IsContent(Line(lineNo + 1)))
    => /\ programCounter' = programCounter + 8
       /\ stage' = "pass1"
       /\ exitCode' = -1
       /\ errOut' = errOut
       /\ lineNo' = lineNo + 1

C19_DataIncrement == [][C19_Step]_vars

\* two data lines that the code section would reject, both counted
C19_Witness ==
    /\ stage = "pass2"
    /\ src = <<".data", "frob r1", "push r99">>
    /\ programCounter = 4096 + 16
    /\ exitCode = -1


(***************************************************************************)
(* Mov programs: ".code" and one mov line, of the four shapes or not.      *)
(***************************************************************************)

MovLines ==
    {"mov r1, r2", "mov r0, r31", "mov r1, 5", "mov r1, 4095", "mov r1, 0",
     "mov r1, (r2)(8)", "mov r1, (r2)(-2048)", "mov (r1)(8), r2",
     "mov (r31)(2047), r0", "mov  r3 ,  r4",
     "mov r32, r1", "mov r1, r32", "mov r1, 4096", "mov r1, -1",
     "mov r1, (r2)(2048)", "mov r1, (r32)(0)", "mov (r40)(8), r1",
     "mov (r1)(-2049), r2", "mov (r1)(8), 5", "mov", "mov 5, r1",
     "mov r1, (r2)", "mov r1,",
     "mov r1, r2x", "mov r1, r", "mov r1, foo", "mov r1, 5x",
     "mov r1, (xr2)(8)", "mov (r1)(8), r2 r3",
     "mov r1 r2", "mov r1", "mov (r1)(8)"}

MovPrograms == {<<".code", line>> : line \in MovLines}

InitMov == InitWith(MovPrograms)

SpecMov == InitMov /\ [][Next]_vars

\* the text is a register operand r0..r31
IsRegister(text) ==
    /\ Ch(text, 1) = "r"
    /\ Len(text) \in 2..3
    /\ IsDecimal(From(text, 2))
    /\ AtoiDigits(text, 2, 0) <= 31

\* the text is a decimal literal of lo..hi
IsLiteral(text, lo, hi) ==
    LET digits == IF Ch(text, 1) = "-" THEN From(text, 2) ELSE text
        value == IF Ch(text, 1) = "-" THEN 0 - AtoiDigits(digits, 1, 0)
                 ELSE AtoiDigits(digits, 1, 0)
    IN  /\ IsDecimal(digits)
        /\ Len(digits) <= 6
        /\ value >= lo /\ value <= hi

\* the text is a memory operand (rX)(L) with X of 0..31 and L of -2048..2047
IsMemory(text) ==
    LET close == SkipUntil(text, 1, {")"})
    IN  /\ Ch(text, 1) = "("
        /\ IsRegister(Sub(text, 2, close - 1))
        /\ Ch(text, close + 1) = "("
        /\ Ch(text, Len(text)) = ")"
        /\ IsLiteral(Sub(text, close + 2, Len(text) - 1), 0 - 2048, 2047)

\* the line is mov rD, rS or mov rD, L or mov rD, (rS)(L) or mov (rD)(L), rS,
\* with L of 0..4095 as a literal and of -2048..2047 as an offset
IsMovShape(line) ==
    LET comma == SkipUntil(line, 1, {","})
        first == trim(Sub(line, 4, comma - 1))
        second == trim(From(line, comma + 1))
    IN  /\ Sub(line, 1, 3) = "mov"
        /\ Ch(line, 4) \in SpaceChars
        /\ comma <= Len(line)
        /\ \/ IsRegister(first) /\ IsRegister(second)
           \/ IsRegister(first) /\ IsLiteral(second, 0, 4095)
           \/ IsRegister(first) /\ IsMemory(second)
           \/ IsMemory(first) /\ IsRegister(second)

(***************************************************************************)
(* C20: in the code section Pass 1 accepts a mov line exactly when it has  *)
(* one of the four shapes mov rD, rS; mov rD, L; mov rD, (rS)(L);          *)
(* mov (rD)(L), rS with every register in 0..31 and every L in its range;  *)
(* every other mov line ends the run with exit status 1.                   *)
(***************************************************************************)
C20_Step ==
    (stage = "pass1" /\ lineNo < Len(src) /\ section = "CODE"
       /\ Mnemonic(Line(lineNo + 1)) = "mov")
    => IF IsMovShape(Line(lineNo + 1))
       THEN stage' = "pass1" /\ exitCode' = -1
       ELSE stage' = "exited" /\ exitCode' = 1

C20_MovShapes == [][C20_Step]_vars


(***************************************************************************)
(* The variant of src/unnamed/part_003, which resolves relative branches.  *)
(* Its trim, add_label and find_label are those above.  It runs in the     *)
(* same variables: after pass1 has returned, section and programCounter    *)
(* hold pass2's locals in_code_section and currentAddress.  Numbers read   *)
(* with %d and %u are computed for texts of at most nine digits.           *)
(***************************************************************************)

check_unsigned12(val) == val >= 0 /\ val <= 4095

check_signed12(val) == val >= 0 - 2048 /\ val <= 2047

RelOps ==
    {"add", "addi", "sub", "subi", "mul", "div", "and", "or", "xor", "not",
     "shftr", "shftri", "shftl", "shftli", "br", "brr", "brr_l", "brr_r",
     "brnz", "call", "return", "brgt", "addf", "subf", "mulf", "divf", "mov",
     "in", "out", "clr", "ld", "push", "pop", "halt", "priv"}

Letters ==
    {"a", "b", "c", "d", "e", "f", "g", "h", "i", "j", "k", "l", "m", "n", "o",
     "p", "q", "r", "s", "t", "u", "v", "w", "x", "y", "z", "A", "B", "C", "D",
     "E", "F", "G", "H", "I", "J", "K", "L", "M", "N", "O", "P", "Q", "R", "S",
     "T", "U", "V", "W", "X", "Y", "Z"}

\* the index after ",[ \t]*r[0-9]+" matched at i, or 0 when it does not match
RegexCommaReg(s, i) ==
    With(SkipWhile(s, i + 1, SpaceChars), LAMBDA r :
    With(SkipWhile(s, r + 1, DecDigits), LAMBDA e :
        IF i > 0 /\ Ch(s, i) = "," /\ Ch(s, r) = "r" /\ e > r + 1 THEN e ELSE 0))

\* "[ \t]*(,[ \t]*(:[A-Za-z][A-Za-z0-9]*|[0-9]+))?$" matches s from index i
RegexTail(s, i) ==
    With(SkipWhile(s, i, SpaceChars), LAMBDA c :
    With(SkipWhile(s, c + 1, SpaceChars), LAMBDA v :
        \/ c > Len(s)
        \/ /\ Ch(s, c) = ","
           /\ \/ /\ Ch(s, v) = ":"
                 /\ Ch(s, v + 1) \in Letters
                 /\ SkipWhile(s, v + 2, Letters \cup DecDigits) > Len(s)
              \/ /\ Ch(s, v) \in DecDigits
                 /\ SkipWhile(s, v, DecDigits) > Len(s)))

\* the operand part of is_valid_instruction's pattern matches s from index i
RegexOperands(s, i) ==
    With(SkipWhile(s, i, SpaceChars), LAMBDA r :
    With(SkipWhile(s, r + 1, DecDigits), LAMBDA e1 :
    With(RegexCommaReg(s, e1), LAMBDA e2 :
    With(RegexCommaReg(s, e2), LAMBDA e3 :
        /\ r > i /\ Ch(s, r) = "r" /\ e1 > r + 1
        /\ \E e \in {e1, e2, e3} : e > 0 /\ RegexTail(s, e)))))

is_valid_instruction(instruction) ==
    \E op \in RelOps :
       /\ Sub(instruction, 1, Len(op)) = op
       /\ \/ Len(instruction) = Len(op)
          \/ RegexOperands(instruction, Len(op) + 1)

\* match_regex of "<name>\s+r[0-9]+" and, for ld, ",\s+[0-9]+" after it: the
\* pattern is not anchored, so it may match from any index k
MatchMacroAt(line, k, name) ==
    With(SkipWhile(line, k + Len(name), SpaceChars), LAMBDA r :
    With(SkipWhile(line, r + 1, DecDigits), LAMBDA e :
    With(SkipWhile(line, e + 1, SpaceChars), LAMBDA v :
        /\ Sub(line, k, k + Len(name) - 1) = name
        /\ r > k + Len(name) /\ Ch(line, r) = "r" /\ e > r + 1
        /\ name = "ld" => (Ch(line, e) = "," /\ v > e + 1 /\ Ch(line, v) \in DecDigits))))

match_regex(name, line) == \E k \in 1..Len(line) : MatchMacroAt(line, k, name)

\* the bytes both passes add for a valid instruction of the code section
RelSize(line) ==
    IF match_regex("ld", line) THEN 48
    ELSE IF match_regex("push", line) \/ match_regex("pop", line) THEN 8
    ELSE 4

\* sscanf's %d from index i
ScanInt(s, i) ==
    With(SkipWhile(s, i, SpaceChars), LAMBDA b :
    With(IF Ch(s, b) \in {"+", "-"} THEN b + 1 ELSE b, LAMBDA d :
    With(SkipWhile(s, d, DecDigits), LAMBDA e :
        [ok |-> e > d,
         val |-> IF Ch(s, b) = "-" THEN 0 - AtoiDigits(Sub(s, d, e - 1), 1, 0)
                 ELSE AtoiDigits(Sub(s, d, e - 1), 1, 0),
         next |-> e])))

\* sscanf's "r%d" from index i
ScanReg(s, i) ==
    IF Ch(s, i) = "r" THEN ScanInt(s, i + 1)
    ELSE [ok |-> FALSE, val |-> 0, next |-> i]

\* sscanf's "r%d<sep>r%d" from index i, where <sep> is %*[ \t,] or, for
\* commas, the literal ", ": n counts the conversions done, next is the index
\* after the separator
ScanRegs(s, i, commas) ==
    With(ScanReg(s, i), LAMBDA r1 :
    With(IF commas
         THEN (IF Ch(s, r1.next) = "," THEN SkipWhile(s, r1.next + 1, SpaceChars) ELSE r1.next)
         ELSE SkipWhile(s, r1.next, SpaceChars \cup {","}), LAMBDA c :
    With(ScanReg(s, c), LAMBDA r2 :
        [n |-> IF ~r1.ok THEN 0 ELSE IF c = r1.next \/ ~r2.ok THEN 1 ELSE 2,
         rD |-> r1.val, rS |-> r2.val, sep |-> r1.ok /\ c > r1.next,
         next |-> c, end |-> r2.next])))

\* the operands after "<name>%*[ \t]" of a macro line
MacroRegs(line, name) ==
    With(SkipWhile(line, Len(name) + 1, SpaceChars), LAMBDA b :
        IF b > Len(name) + 1 THEN ScanRegs(line, b, FALSE)
        ELSE [n |-> 0, rD |-> 0, rS |-> 0, sep |-> FALSE, next |-> b, end |-> b])

RelResult(lines, errors, fatal) == [out |-> lines, err |-> errors, exit |-> fatal]

\* sscanf's %llu from index i, as a 64-bit value
ScanU64(s, i) ==
    With(ScanInt(s, i).next, LAMBDA e :
    With(SkipWhile(s, SkipWhile(s, i, SpaceChars), {"+", "-"}), LAMBDA d :
    With(AccDigits(s, d, e, 10, Zero64).val, LAMBDA mag :
        IF Ch(s, d - 1) = "-" THEN Neg64(mag) ELSE mag)))

RelExpandLd(rD, L) ==
    With("\taddi " \o Reg(rD) \o ", r0, ", LAMBDA addi :
    With("\tshftli " \o Reg(rD) \o ", ", LAMBDA shftli :
        <<"\txor r0, r0, r0",
          addi \o ToDec(Window(L, 52, 4095)), "\tshiftli " \o Reg(rD) \o ", 12",
          addi \o ToDec(Window(L, 40, 4095)), shftli \o "12",
          addi \o ToDec(Window(L, 28, 4095)), shftli \o "12",
          addi \o ToDec(Window(L, 16, 4095)), shftli \o "4",
          addi \o ToDec(Window(L, 4, 4095)), shftli \o "4",
          addi \o ToDec(Window(L, 0, 15))>>))

\* the ld branch of parseMacro
RelParseLd(line, table) ==
    With(MacroRegs(line, "ld"), LAMBDA m :
    With(ScanWord(line, m.next + 1, 49), LAMBDA lbl :
        IF m.n >= 1 /\ m.sep /\ ScanInt(line, m.next).ok
        THEN RelResult(RelExpandLd(m.rD, ScanU64(line, m.next)), <<>>, FALSE)
        ELSE IF m.n >= 1 /\ m.sep /\ Ch(line, m.next) = ":" /\ lbl.ok
        THEN IF HasLabel(table, lbl.tok)
             THEN RelResult(RelExpandLd(m.rD, U64(find_label(table, lbl.tok).address)),
                            <<>>, FALSE)
             ELSE RelResult(<<>>, <<"Label not found in 'ld' macro: " \o line>>, FALSE)
        ELSE RelResult(<<>>, <<"Error parsing 'ld' macro: " \o line>>, FALSE)))

\* sscanf(line, "mov r%d%*[ \t,]%d"): the literal when both were read
MovImmediate(line) ==
    With(ScanRegs(line, SkipWhile(line, 4, SpaceChars), FALSE), LAMBDA m :
    With(ScanInt(line, m.next), LAMBDA imm :
        [ok |-> Sub(line, 1, 3) = "mov" /\ m.n >= 1 /\ m.sep /\ imm.ok,
         val |-> imm.val]))

\* the mov branch of parseMacro
RelParseMov(line) ==
    With(SkipWhile(line, 4, SpaceChars), LAMBDA a :
    With(ScanReg(line, a + 1), LAMBDA mem :
    With(ScanReg(line, SkipWhile(line, mem.next + 1, SpaceChars \cup {","})), LAMBDA reg :
    With(ScanRegs(line, a, FALSE), LAMBDA m :
    With(MovImmediate(line), LAMBDA imm :
        IF SkipUntil(line, 1, {"("}) <= Len(line) /\ SkipUntil(line, 1, {")"}) <= Len(line)
        THEN IF Ch(line, a) = "("
             THEN IF mem.ok /\ Ch(line, mem.next) = ")"
                     /\ Ch(line, mem.next + 1) \in SpaceChars \cup {","} /\ reg.ok
                  THEN RelResult(<<"\tst " \o Reg(reg.val) \o ", (" \o Reg(mem.val) \o ")">>,
                                 <<>>, FALSE)
                  ELSE RelResult(<<>>, <<"Error parsing 'mov' macro (mov_rm): " \o line>>, FALSE)
             ELSE IF m.n >= 1 /\ m.sep /\ Ch(line, m.next) = "("
                     /\ ScanReg(line, m.next + 1).ok
                  THEN RelResult(<<"\tld " \o Reg(m.rD) \o ", ("
                                      \o Reg(ScanReg(line, m.next + 1).val) \o ")">>,
                                 <<>>, FALSE)
                  ELSE RelResult(<<>>, <<"Error parsing 'mov' macro (mov_mr): " \o line>>, FALSE)
        ELSE IF imm.ok /\ ~check_signed12(imm.val)
        THEN RelResult(<<>>, <<"Error: Immediate for mov must be signed 12-bit, got "
                                  \o ToDec(imm.val)>>, TRUE)
        ELSE RelResult(<<"\t" \o line>>, <<>>, FALSE))))))

\* the branches of parseMacro with one or two register operands
RelParseRegs(op, line) ==
    With(MacroRegs(line, op), LAMBDA m :
        IF m.n < (IF op \in {"in", "out"} THEN 2 ELSE 1)
        THEN RelResult(<<>>, <<"Error parsing '" \o op \o "' macro: " \o line>>, FALSE)
        ELSE IF op \in {"in", "out"}
        THEN RelResult(<<"\tpriv " \o Reg(m.rD) \o ", " \o Reg(m.rS) \o ", 0, 3">>, <<>>, FALSE)
        ELSE IF op = "clr"
        THEN RelResult(<<"\txor " \o Reg(m.rD) \o ", " \o Reg(m.rD) \o ", " \o Reg(m.rD)>>,
                       <<>>, FALSE)
        ELSE RelResult(<<"\tmov " \o Reg(m.rD) \o ", r31(0)",
                         IF op = "push" THEN "\tsubi r31, r31, 8" ELSE "\taddi r31, r31, 8">>,
                       <<>>, FALSE))

RelParseMacro(line, table) ==
    With(ScanWord(line, 1, 15).tok, LAMBDA op :
        IF op \in {"in", "out", "clr", "push", "pop"} THEN RelParseRegs(op, line)
        ELSE IF op = "halt" THEN RelResult(<<"\tpriv r0, r0, r0, 0">>, <<>>, FALSE)
        ELSE IF op = "ld" THEN RelParseLd(line, table)
        ELSE IF op = "mov" THEN RelParseMov(line)
        ELSE RelResult(<<"\t" \o line>>, <<>>, FALSE))

\* "^(in|out|clr|halt|push|pop|ld|mov)\b" matches the line
IsRelMacro(line) ==
    \E op \in {"in", "out", "clr", "halt", "push", "pop", "ld", "mov"} :
       /\ Sub(line, 1, Len(op)) = op
       /\ Ch(line, Len(op) + 1) \notin Letters \cup DecDigits \cup {"_"}

\* the offset of a relative branch with this mnemonic, from lineAddress
BranchOffset(mnemonic, target, lineAddress) ==
    With(target - lineAddress, LAMBDA offset :
        IF mnemonic = "brr_l" /\ offset > 0 THEN 0 - offset
        ELSE IF mnemonic = "brr_r" /\ offset < 0 THEN 0 - offset
        ELSE offset)

\* the label reference branch of pass2: label is what sscanf left in label[]
RelResolve(line, label, table, lineAddress) ==
    With(ScanWord(line, 1, 15).tok, LAMBDA mnemonic :
    With(Sub(line, 1, SkipUntil(line, 1, {":"}) - 1), LAMBDA cut :
        IF ~HasLabel(table, label) THEN RelResult(<<"\t" \o line>>, <<>>, FALSE)
        ELSE IF mnemonic \notin {"brr", "brr_l", "brr_r"}
        THEN RelResult(<<"\t" \o cut \o " " \o ToDec(find_label(table, label).address)>>,
                       <<>>, FALSE)
        ELSE With(BranchOffset(mnemonic, find_label(table, label).address, lineAddress),
                  LAMBDA offset :
             IF ~check_signed12(offset)
             THEN RelResult(<<>>, <<"Error: Branch offset for " \o mnemonic
                                       \o " not in signed 12-bit range: "
                                       \o ToDec(offset)>>, TRUE)
             ELSE RelResult(<<"\t" \o cut \o " " \o ToDec(offset)>>, <<>>, FALSE))))

\* what pass2 prints for one line of the code section
RelCodeLine(line, stale, table, lineAddress) ==
    With(ScanWord(line, SkipUntil(line, 1, {":"}) + 1, 1023), LAMBDA lbl :
    With(MovImmediate(line), LAMBDA imm :
        IF IsRelMacro(line) THEN RelParseMacro(line, table)
        ELSE IF SkipUntil(line, 1, {":"}) <= Len(line)
        THEN RelResolve(line, IF lbl.ok THEN lbl.tok ELSE stale, table, lineAddress)
        ELSE IF SkipUntil(line, 1, {"("}) > Len(line) /\ imm.ok /\ ~check_signed12(imm.val)
        THEN RelResult(<<>>, <<"Error: Immediate for mov must be signed 12-bit, got "
                                  \o ToDec(imm.val)>>, TRUE)
        ELSE RelResult(<<"\t" \o line>>, <<>>, FALSE)))

\* sscanf(line, "priv r%d, r%d, r%d, %d"): whether it read 4 values, and L
PrivOperands(line) ==
    With(ScanRegs(line, SkipWhile(line, 5, SpaceChars), TRUE), LAMBDA a :
    With(ScanReg(line, SkipWhile(line, a.end + 1, SpaceChars)), LAMBDA r3 :
    With(ScanInt(line, r3.next + 1), LAMBDA L :
        [ok |-> /\ a.n = 2 /\ Ch(line, a.end) = "," /\ r3.ok
                /\ Ch(line, r3.next) = "," /\ L.ok,
         L |-> L.val])))

\* printf's %u of a number read with %u from at most nine digits and a sign
ToUnsigned(n) ==
    IF n >= 0 THEN ToDec(n)
    ELSE ToDec(4294 + ((967296 + n) \div 1000000))
         \o From(ToDec(1000000 + ((967296 + n) % 1000000)), 2)

\* sscanf(line, "%*s r%*d%*[ ,\t]r%*d%*[ ,\t]%u") for the mnemonics with a
\* literal: whether it read a value, and the value
ImmediateOperand(line) ==
    With(ScanRegs(line, SkipWhile(line, ScanWord(line, 1, 1023).next, SpaceChars), FALSE),
         LAMBDA m :
    With(SkipWhile(line, m.end, SpaceChars \cup {","}), LAMBDA c :
    With(ScanInt(line, c), LAMBDA imm :
        [ok |-> /\ \E op \in ImmediateOps : Sub(line, 1, Len(op)) = op
                /\ m.n = 2 /\ c > m.end /\ imm.ok,
         val |-> imm.val])))

\* the two checks pass2 makes before it looks at the kind of line: the
\* message of the failing one, or <<>>
RelChecks(line) ==
    With(PrivOperands(line), LAMBDA p :
    With(ImmediateOperand(line), LAMBDA imm :
        IF Sub(line, 1, 4) = "priv" /\ ~p.ok
        THEN <<"Error parsing priv instruction: " \o line>>
        ELSE IF Sub(line, 1, 4) = "priv" /\ (p.L < 0 \/ p.L > 4)
        THEN <<"Error: L in priv must be 0, 1, 2, 3, or 4. Got " \o ToDec(p.L)>>
        ELSE IF imm.ok /\ ~check_unsigned12(imm.val)
        THEN <<"Error: Immediate for instruction '" \o line
                  \o "' must be unsigned 12-bit, got " \o ToUnsigned(imm.val)>>
        ELSE <<>>))

\* the line is a label definition as pass2 recognises it
RelIsLabelDef(line) ==
    /\ Ch(line, 1) = ":" /\ Len(line) > 1
    /\ SkipWhile(line, 2, Letters \cup DecDigits \cup {"_"}) > Len(line)

\* pass2's loop body for one trimmed line: what is printed, whether the run
\* ends, and the new in_code_section and currentAddress
RelPass2Print(line, stale, table, inCode, address) ==
    With([out |-> <<>>, err |-> <<>>, exit |-> FALSE, inCode |-> inCode, address |-> address],
         LAMBDA skip :
        IF line = "" \/ Ch(line, 1) = ";" THEN skip
        ELSE IF RelChecks(line) # <<>>
        THEN [skip EXCEPT !.err = RelChecks(line), !.exit = TRUE]
        ELSE IF line = ".code"
        THEN [skip EXCEPT !.out = <<".code">>, !.inCode = TRUE, !.address = 4096]
        ELSE IF line = ".data"
        THEN [skip EXCEPT !.out = <<".data">>, !.inCode = FALSE]
        ELSE IF RelIsLabelDef(line) THEN skip
        ELSE IF ~inCode THEN [skip EXCEPT !.out = <<"\t" \o line>>]
        ELSE With(RelCodeLine(line, stale, table, address), LAMBDA r :
             [out |-> r.out, err |-> r.err, exit |-> r.exit, inCode |-> inCode,
              address |-> IF ~r.exit /\ is_valid_instruction(line)
                          THEN address + RelSize(line) ELSE address]))

\* what an unwritten label[] may hold
RelStale == {"", "L"}

\* one iteration of pass1's loop
RelPass1Line ==
    /\ stage = "pass1"
    /\ lineNo < Len(src)
    /\ \E stale \in RelStale :
        LET line == trim(src[lineNo + 1])
            lab == ScanWord(From(line, 2), 1, 1023)
            note(bytes) == Append(sized, [section |-> section, added |-> bytes])
        IN  /\ lineNo' = lineNo + 1
            /\ UNCHANGED <<src, outOpened, out, errOut>>
            /\ IF line = "" \/ Ch(line, 1) = ";"
               THEN /\ sized' = note(0)
                    /\ UNCHANGED <<stage, section, programCounter, hashmap, exitCode>>
               ELSE IF Ch(line, 1) = "."
               THEN /\ section' = IF Sub(line, 1, 5) = ".code" THEN "CODE"
                                  ELSE IF Sub(line, 1, 5) = ".data" THEN "DATA"
                                  ELSE section
                    /\ sized' = note(0)
                    /\ UNCHANGED <<stage, programCounter, hashmap, exitCode>>
               ELSE IF Ch(line, 1) = ":"
               THEN /\ hashmap' = add_label(hashmap, IF lab.ok THEN lab.tok ELSE stale,
                                            programCounter)
                    /\ sized' = note(0)
                    /\ UNCHANGED <<stage, section, programCounter, exitCode>>
               ELSE IF section = "CODE" /\ ~is_valid_instruction(line)
               THEN /\ stage' = "exited"
                    /\ exitCode' = 255
                    /\ sized' = note(0)
                    /\ UNCHANGED <<section, programCounter, hashmap>>
               ELSE IF section = "CODE"
               THEN /\ programCounter' = programCounter + RelSize(line)
                    /\ sized' = note(RelSize(line))
                    /\ UNCHANGED <<stage, section, hashmap, exitCode>>
               ELSE IF section = "DATA"
               THEN /\ programCounter' = programCounter + 8
                    /\ sized' = note(8)
                    /\ UNCHANGED <<stage, section, hashmap, exitCode>>
               ELSE /\ sized' = note(0)
                    /\ UNCHANGED <<stage, section, programCounter, hashmap, exitCode>>

\* pass1 meets end of input and returns; pass2 opens its files and sets
\* in_code_section = 0 and currentAddress = 0
RelPass1Eof ==
    /\ stage = "pass1"
    /\ lineNo = Len(src)
    /\ stage' = "pass2"
    /\ lineNo' = 0
    /\ outOpened' = TRUE
    /\ out' = <<>>
    /\ section' = "NONE"
    /\ programCounter' = 0
    /\ UNCHANGED <<src, hashmap, errOut, exitCode, sized>>

\* the fprintf calls of one iteration of pass2's loop, exit(1), and the
\* assignments to in_code_section and currentAddress
RelPass2Write(r) ==
    /\ out' = out \o r.out
    /\ errOut' = errOut \o r.err
    /\ stage' = IF r.exit THEN "exited" ELSE stage
    /\ exitCode' = IF r.exit THEN 1 ELSE exitCode
    /\ section' = IF r.inCode THEN "CODE" ELSE "NONE"
    /\ programCounter' = r.address

\* one iteration of pass2's loop
RelPass2Line ==
    /\ stage = "pass2"
    /\ lineNo < Len(src)
    /\ \E stale \in RelStale :
         RelPass2Write(RelPass2Print(trim(src[lineNo + 1]), stale, hashmap,
                                     section = "CODE", programCounter))
    /\ lineNo' = lineNo + 1
    /\ UNCHANGED <<src, hashmap, outOpened, sized>>

RelNext == RelPass1Line \/ RelPass1Eof \/ RelPass2Line \/ Pass2Eof \/ MainReturn

(***************************************************************************)
(* Programs for the variant: directives, a label, branches that refer to   *)
(* it with and without a register operand, and lines of 4, 8 and 48 bytes. *)
(***************************************************************************)

RelLines ==
    {".code", ".data", ":L", "brr :L", "brr r0, :L", "brr_l r0, :L",
     "br r0, :L", "push r1", "ld r1, 5"}

\* a data item before the code section, then a label and a reference to it
RelSectioned ==
    {<<".data", d, ".code", ":L", b>> :
        d \in {"push r1", "ld r1, 5"}, b \in {"brr r0, :L", "br r0, :L"}}

InitRel == InitWith(Programs(RelLines, MaxLines) \cup RelSectioned)

SpecRel == InitRel /\ [][RelNext]_vars

\* the line refers to a label that the program defines, by a name that
\* pass2 reads as it stands
RelRefersToDefined(line) ==
    /\ Marker(line) <= Len(line)
    /\ Reference(line).ok
    /\ \E i \in 1..Len(src) :
          Ch(Line(i), 1) = ":" /\ From(Line(i), 2) = Reference(line).tok

\* the address of line n: 4096 and the bytes pass1 added for the lines before
RECURSIVE AddressOf(_)
AddressOf(n) == IF n <= 1 THEN 4096 ELSE AddressOf(n - 1) + sized[n - 1].added

\* target minus the address of the branch, negated for brr_l when positive
\* and for brr_r when negative
Displacement(mnemonic, target, branch) ==
    IF mnemonic = "brr_l" /\ target > branch THEN branch - target
    ELSE IF mnemonic = "brr_r" /\ target < branch THEN branch - target
    ELSE target - branch

(***************************************************************************)
(* C14: in the variant of src/unnamed/part_003, a line of the code section *)
(* with mnemonic brr, brr_l or brr_r that refers to a defined label passes *)
(* Pass 1, and Pass 2 writes for it the label's address minus the address  *)
(* of the branch itself, negated as the directional mnemonic asks, or ends *)
(* the run with a non-zero status and writes nothing when that value is    *)
(* outside -2048..2047; for any other mnemonic Pass 2 writes the label's   *)
(* absolute address.                                                       *)
(***************************************************************************)
C14_Step ==
    LET line == Line(lineNo + 1)
        target == find_label(hashmap, Reference(line).tok).address
        value == IF Mnemonic(line) \in {"brr", "brr_l", "brr_r"}
                 THEN Displacement(Mnemonic(line), target, AddressOf(lineNo + 1))
                 ELSE target
    IN  /\ (stage = "pass1" /\ lineNo < Len(src) /\ section = "CODE"
              /\ Mnemonic(line) \in {"brr", "brr_l", "brr_r"}
              /\ RelRefersToDefined(line))
           => stage' = "pass1"
        /\ (stage = "pass2" /\ lineNo < Len(src) /\ lineNo' = lineNo + 1
              /\ sized[lineNo + 1].section = "CODE" /\ IsContent(line)
              /\ Mnemonic(line) \notin {"in", "out", "clr", "halt", "push", "pop", "ld", "mov"}
              /\ RelRefersToDefined(line))
           => IF Mnemonic(line) \in {"brr", "brr_l", "brr_r"}
                 /\ (value < 0 - 2048 \/ value > 2047)
              THEN out' = out /\ stage' = "exited" /\ exitCode' \notin {-1, 0}
              ELSE /\ stage' = "pass2"
                   /\ out' = Append(out, "\t" \o Sub(line, 1, Marker(line) - 1)
                                            \o " " \o ToDec(value))

C14_RelativeBranch == [][C14_Step]_vars


\* the bytes Pass 1 adds for a content line, from the section and the text alone
BytesFor(sect, line) ==
    IF sect = "CODE" THEN CodeSize(line) ELSE IF sect = "DATA" THEN DataSize ELSE 0

(***************************************************************************)
(* C21: the bytes Pass 1 adds for a content line depend on the section and *)
(* on the text of the line alone: the step adds what the same text adds    *)
(* under the same section whatever the counter and the table are, and the  *)
(* same number of bytes that every earlier line of the run with the same   *)
(* text under the same section has added.                                  *)
(***************************************************************************)
C21_Step ==
    LET line == Line(lineNo + 1)
        added == programCounter' - programCounter
    IN  (stage = "pass1" /\ lineNo < Len(src) /\ stage' = "pass1" /\ IsContent(line))
        => /\ added = BytesFor(section, line)
           /\ \A i \in 1..lineNo :
                 (Line(i) = line /\ sized[i].section = section)
                 => sized[i].added = added

C21_SizeFunction == [][C21_Step]_vars

\* the same instruction before and after a label and another instruction
C21_Witness ==
    /\ stage = "pass2"
    /\ src = <<".code", "ld r1, :B", ":B", "ld r1, :B">>
    /\ sized[2].added = 48 /\ sized[4].added = 48
    /\ hashmap = <<[label |-> "B", address |-> 4144]>>


\* line i is a macro line for which Pass 2 reports a diagnostic
IsMalformedMacro(i) ==
    /\ IsContent(Line(i))
    /\ Mnemonic(Line(i)) \in MacroOps
    /\ Pass2Print(Line(i), hashmap).err # <<>>

(***************************************************************************)
(* C22: Pass 2 treats every macro line whose operands do not have the      *)
(* macro's shape, a reference to an undefined label among them, by one     *)
(* policy: it reports a diagnostic, the run still ends with status 0, and  *)
(* either all such lines are skipped or all are copied as they stand.      *)
(***************************************************************************)
C22_UniformPolicy ==
    /\ stage = "pass2"
       => \/ \A i \in 1..Len(src) :
                IsMalformedMacro(i) => Pass2Print(Line(i), hashmap).out = <<>>
          \/ \A i \in 1..Len(src) :
                IsMalformedMacro(i)
                => Pass2Print(Line(i), hashmap).out = <<"\t" \o Line(i)>>
    /\ (stage = "exited" /\ outOpened) => exitCode = 0


(***************************************************************************)
(* Frame programs: nothing, a code section or a data section, and then     *)
(* blank lines, comments, directives with and without a known keyword,     *)
(* label definitions and content lines, some of which the code section     *)
(* rejects.                                                                *)
(***************************************************************************)

FrameLines ==
    {"", "   ", "; note", ".code", ".data", ".text", ".", ".codex", ":L", ":",
     "add r1, r2, r3", "frob r1", "push", "ld r1, :L", "addi r1, 4096"}

FramePrefixes == {<<>>, <<".code", "ld r1, 5">>, <<".data", "5">>, <<":L", ".text">>}

FramePrograms ==
    {pre \o body : pre \in FramePrefixes, body \in Programs(FrameLines, MaxBody)}

InitFrame == InitWith(FramePrograms)

SpecFrame == InitFrame /\ [][Next]_vars

(***************************************************************************)
(* C23: in Pass 1 a line that starts with '.', whatever follows, and a     *)
(* label definition leave the counter unchanged; a blank line and a        *)
(* comment leave the counter, the section and the table unchanged; a       *)
(* directive leaves the table and a label definition the section           *)
(* unchanged.                                                              *)
(***************************************************************************)
C23_Step ==
    (stage = "pass1" /\ lineNo < Len(src))
    => LET line == Line(lineNo + 1)
       IN  /\ (Ch(line, 1) \in {".", ":"})
              => (programCounter' = programCounter /\ stage' = "pass1")
           /\ (line = "" \/ Ch(line, 1) = ";")
              => /\ programCounter' = programCounter
                 /\ section' = section
                 /\ hashmap' = hashmap
                 /\ stage' = "pass1"
           /\ Ch(line, 1) = "." => hashmap' = hashmap
           /\ Ch(line, 1) = ":" => section' = section

C23_Frame == [][C23_Step]_vars

\* after an instruction of 48 bytes: a directive without keyword and a
\* label, neither of which moved the counter
C23_Witness ==
    /\ stage = "pass1"
    /\ src = <<".code", "ld r1, 5", ".text", ":L">>
    /\ lineNo = 4
    /\ programCounter = 4096 + 48
    /\ section = "CODE"
    /\ hashmap = <<[label |-> "L", address |-> 4144]>>

(***************************************************************************)
(* C24: while no .code or .data directive has been read, a content line    *)
(* leaves the counter, the section and the table unchanged and never ends  *)
(* the run, whatever its text.                                             *)
(***************************************************************************)
C24_Step ==
    (stage = "pass1" /\ lineNo < Len(src) /\ section = "NONE"
       /\ IsContent(Line(lineNo + 1)))
    => /\ programCounter' = programCounter
       /\ section' = "NONE"
       /\ hashmap' = hashmap
       /\ stage' = "pass1"
       /\ exitCode' = -1
       /\ errOut' = errOut

C24_NoSection == [][C24_Step]_vars

\* two lines that the code section rejects, read outside any section
C24_Witness ==
    /\ stage = "pass2"
    /\ src = <<":L", ".text", "frob r1", "addi r1, 4096">>
    /\ programCounter = 4096
    /\ section = "NONE"
    /\ hashmap = <<[label |-> "L", address |-> 4096]>>


(***************************************************************************)
(* C25: in the variant of src/unnamed/part_003, whenever Pass 2 is about   *)
(* to handle a content line of its code section, the address it holds for  *)
(* the line is the counter Pass 1 had when it reached the same line.       *)
(***************************************************************************)
C25_SameAddress ==
    (stage = "pass2" /\ lineNo < Len(src) /\ section = "CODE"
       /\ IsContent(Line(lineNo + 1)))
    => programCounter = AddressOf(lineNo + 1)


\* the section of Pass 1 after it had read line i (Pass 2 does not assign it)
SectionAfter(i) == IF i < Len(sized) THEN sized[i + 1].section ELSE section

(***************************************************************************)
(* C26: the two passes agree on which lines are directives: when a line    *)
(* changed the section in Pass 1, Pass 2 copies it to the output           *)
(* unindented as a directive; and when Pass 2 copies a line unindented,    *)
(* Pass 1 had taken the section of its keyword from it.                    *)
(***************************************************************************)
C26_Step ==
    (stage = "pass2" /\ lineNo < Len(src) /\ lineNo' = lineNo + 1)
    => LET line == Line(lineNo + 1)
           copied == out' = Append(out, line)
       IN  /\ SectionAfter(lineNo + 1) # sized[lineNo + 1].section => copied
           /\ (copied /\ line # "")
              => /\ Ch(line, 1) = "."
                 /\ SectionAfter(lineNo + 1)
                       = (IF Sub(line, 2, 5) = "code" THEN "CODE" ELSE "DATA")

C26_SameDirectives == [][C26_Step]_vars


(***************************************************************************)
(* C27: in Pass 2 a blank line, a comment and a label definition write     *)
(* nothing; a .code or .data directive is copied once, unindented; every   *)
(* other line written starts with a tab; and what a line writes is added   *)
(* after all that the lines before it wrote.                               *)
(***************************************************************************)
C27_Step ==
    (stage = "pass2" /\ lineNo < Len(src) /\ lineNo' = lineNo + 1)
    => LET line == Line(lineNo + 1)
       IN  /\ Len(out') >= Len(out) /\ SubSeq(out', 1, Len(out)) = out
           /\ (line = "" \/ Ch(line, 1) \in {";", ":"}) => out' = out
           /\ line \in {".code", ".data"} => out' = Append(out, line)
           /\ line \notin {".code", ".data"}
              => \A k \in (Len(out) + 1)..Len(out') : Ch(out'[k], 1) = "\t"

C27_OutputShape == [][C27_Step]_vars

\* a data item, a label and a directive: the label wrote nothing
C27_Witness ==
    /\ stage = "main"
    /\ src = <<".data", "5", ":L", ".code">>
    /\ out = <<".data", "\t5", ".code">>


\* the section in which Pass 1 would read line k of the output, were the
\* output assembled again
OutputSection(k) ==
    LET marks == {j \in 1..(k - 1) : Sub(trim(out[j]), 1, 5) \in {".code", ".data"}}
    IN  IF marks = {} THEN "NONE"
        ELSE LET last == CHOOSE j \in marks : \A i \in marks : i <= j
             IN  IF Sub(trim(out[last]), 1, 5) = ".code" THEN "CODE" ELSE "DATA"

\* what Pass 2 writes for the first k lines of the output, assembled again:
\* the output defines no label, so the table of that run is empty
RECURSIVE Reprint(_)
Reprint(k) ==
    IF k = 0 THEN <<>> ELSE Reprint(k - 1) \o Pass2Print(trim(out[k]), <<>>).out

(***************************************************************************)
(* C28: when a source has been assembled without error, every line of the  *)
(* output that Pass 1 would validate is accepted by Pass 1's validation,   *)
(* and Pass 2 run on the output writes the output again.                   *)
(***************************************************************************)
C28_Reassembly ==
    stage = "main"
    => /\ \A k \in 1..Len(out) :
             (OutputSection(k) = "CODE" /\ IsContent(trim(out[k])))
             => \A ub \in UBFor(trim(out[k])) :
                   is_valid_instruction_pass1(trim(out[k]), ub)
       /\ Reprint(Len(out)) = out


Aligned(address) == address >= BaseAddress /\ (address - BaseAddress) % 4 = 0

(***************************************************************************)
(* C29: before and after every step the program counter is at least 4096   *)
(* and differs from 4096 by a multiple of 4, no step decreases it, and     *)
(* every address in the symbol table is at least 4096 and a multiple of 4  *)
(* away from it.                                                           *)
(***************************************************************************)
C29_Step ==
    /\ Aligned(programCounter)
    /\ Aligned(programCounter')
    /\ programCounter' >= programCounter
    /\ \A i \in 1..Len(hashmap) : Aligned(hashmap[i].address)
    /\ \A i \in 1..Len(hashmap') : Aligned(hashmap'[i].address)

C29_ProgramCounter == [][C29_Step]_vars

C29_Witness ==
    /\ stage = "pass2"
    /\ src = <<".code", "ld r1, :B", "push r1", ":B">>
    /\ programCounter = 4096 + 48 + 8
    /\ hashmap = <<[label |-> "B", address |-> 4152]>>


(***************************************************************************)
(* The frame programs run to their end.  The assembler is one sequential   *)
(* process, which takes its next step whenever it has one: it reads the    *)
(* next line or goes on to the next stage.  Every step of Next is such a   *)
(* step (StepsAdvance), and one is possible until the process has exited.  *)
(***************************************************************************)
Advance ==
    /\ stage # "exited"
    /\ stage' \in {"pass1", "pass2", "main", "exited"}
    /\ lineNo' \in 0..Len(src)
    /\ <<stage', lineNo'>> # <<stage, lineNo>>

SpecFair == InitFrame /\ [][Next]_vars /\ WF_<<stage, lineNo>>(Advance)

StepsAdvance == [][Advance]_vars

\* Pass 1 has reported an invalid line
FatalDetected ==
    \E i \in 1..Len(errOut) : Sub(errOut[i], 1, 29) = "pass1 error: invalid line => "

\* the run has ended in Pass 1, at an invalid line of the code section
AbortedInPass1 ==
    /\ exitCode # 0
    /\ FatalDetected
    /\ ~outOpened
    /\ lineNo >= 1
    /\ sized[lineNo].section = "CODE"
    /\ IsContent(Line(lineNo))

\* both passes have read the whole source and main has returned 0
Completed ==
    /\ exitCode = 0
    /\ outOpened
    /\ Len(sized) = Len(src)
    /\ lineNo = Len(src)

(***************************************************************************)
(* C30: every run ends; it has ended either in Pass 1, at an invalid line, *)
(* with a non-zero exit code, or after both passes have read the whole     *)
(* source, with exit code 0; and the exit code is 0 exactly when Pass 1    *)
(* has reported no invalid line.                                           *)
(***************************************************************************)
C30_Termination ==
    /\ <>(stage = "exited")
    /\ [](stage = "exited" => (AbortedInPass1 \/ Completed))
    /\ [](stage = "exited" => (exitCode = 0 <=> ~FatalDetected))

C30_Witness ==
    /\ stage = "exited"
    /\ src = <<".code", "ld r1, 5", "add r1, r2, r3", "frob r1">>
    /\ lineNo = 4
    /\ programCounter = 4096 + 48 + 4
    /\ exitCode = 1
    /\ errOut = <<"pass1 error: invalid line => frob r1">>
    /\ ~outOpened

=============================================================================
